---- MODULE Spec2Model ----
(***************************************************************************)
(* SCD2 versioning engine of management-cockpit-crm: the Entity and        *)
(* EntityDetail tables with their declared constraints, and the write      *)
(* paths CreateService.create_entity and                                   *)
(* UpdateService.update_entity_idempotent working on them (Spec); the      *)
(* audit trail of these and of EntityService (SpecAudit); two concurrent   *)
(* update_entity_idempotent calls taken statement by statement             *)
(* (SpecConcurrent); and the as-of queries, as operators on the tables.    *)
(*                                                                         *)
(* Strings are sequences of one-character strings, so that strip() and     *)
(* lower() are computed.  A SHA-256 digest is represented by the byte      *)
(* string it is computed over (an injective digest).  Instants are         *)
(* naturals; Null stands for None / SQL NULL.  The constraints of the      *)
(* models' Meta classes are enforced statement by statement with the       *)
(* PostgreSQL semantics they are written for (partial unique index, GiST   *)
(* exclusion over tstzrange), and a failing statement aborts the           *)
(* surrounding transaction.atomic block.                                   *)
(***************************************************************************)
EXTENDS Integers, Sequences, FiniteSets, TLC

VARIABLES entities, details, audit, now, ret, txn

vars == <<entities, details, audit, now, ret, txn>>

\* ---------------------------------------------------------------- bounds
MaxTime == 3
MaxUid == 2
MaxEntityRows == 3
MaxDetailRows == 5
MaxDetails == 2

\* ------------------------------------------------------------ vocabulary
Null == 0

Time == 1..MaxTime

Uids == 1..MaxUid

None == <<>>

Some(v) == <<v>>

Names == { <<"a">>, <<" ", "A">>, <<"b">> }

EntityTypes == { <<"P">>, <<"I">> }

DetailTypes == { <<"e">>, <<"p">> }

Values == { <<"x">>, <<"X", " ">>, <<"y">> }

\* --------------------------------------------------------------- strings
Whitespace == {" "}

lower_char(c) ==
    CASE c = "A" -> "a"
      [] c = "B" -> "b"
      [] c = "X" -> "x"
      [] c = "Y" -> "y"
      [] c = "P" -> "p"
      [] c = "I" -> "i"
      [] OTHER -> c

lower(s) == [i \in 1..Len(s) |-> lower_char(s[i])]

RECURSIVE lstrip(_)
lstrip(s) ==
    IF s # <<>> /\ Head(s) \in Whitespace THEN lstrip(Tail(s)) ELSE s

RECURSIVE rstrip(_)
rstrip(s) ==
    IF s # <<>> /\ s[Len(s)] \in Whitespace
    THEN rstrip(SubSeq(s, 1, Len(s) - 1))
    ELSE s

strip(s) == rstrip(lstrip(s))

\* HashService.normalize_string
normalize_string(s) == lower(strip(s))

\* hashlib.sha256(x).hexdigest(): injective on the hashed payload
sha256(bytes) == bytes

\* HashService.compute over a list of strings
RECURSIVE join(_)
join(strings) ==
    IF strings = <<>> THEN <<>>
    ELSE IF Len(strings) = 1 THEN strings[1]
    ELSE strings[1] \o <<"|">> \o join(Tail(strings))

HashService_compute(strings) ==
    sha256(join([i \in 1..Len(strings) |-> normalize_string(strings[i])]))

\* UpdateService._compute_entity_hashdiff
compute_entity_hashdiff_nolower(display_name, entity_type_id) ==
    sha256(strip(display_name) \o <<"|">> \o entity_type_id)

compute_entity_hashdiff(display_name, entity_type_id) ==
    sha256(lower(strip(display_name)) \o <<"|">> \o entity_type_id)

\* UpdateService._compute_detail_hashdiff
compute_detail_hashdiff(detail_value) ==
    sha256(lower(strip(detail_value)))

\* models.Model.save as Entity inherits it: the row is written as it stands
Entity_save_inherited(row) == row

\* Entity.save: hashdiff recomputed on every save
Entity_save(row) ==
    [row EXCEPT !.hashdiff =
        sha256(lower(strip(row.display_name)) \o <<"|">> \o row.entity_type)]

\* EntityDetail.save: hashdiff recomputed on every save
EntityDetail_save(row) ==
    [row EXCEPT !.hashdiff =
        HashService_compute(<<row.detail_value, row.detail_type>>)]

\* ---------------------------------------------------------------- tables
\* End of the range [valid_from, valid_to): NULL upper bound is unbounded
Infinity == MaxTime + 1

upper(row) == IF row.valid_to = Null THEN Infinity ELSE row.valid_to

\* tstzrange(valid_from, valid_to, '[)') raises when the bounds are reversed
tstzrange_ok(row) == row.valid_to = Null \/ row.valid_from <= row.valid_to

\* PostgreSQL && on ranges: an empty range overlaps nothing
ranges_overlap(r1, r2) ==
    /\ r1.valid_from < upper(r1)
    /\ r2.valid_from < upper(r2)
    /\ r1.valid_from < upper(r2)
    /\ r2.valid_from < upper(r1)

\* UniqueConstraint(fields=[entity_uid], condition=Q(is_current=True))
unique_current_entity(e) ==
    \A i, j \in DOMAIN e :
        (i < j /\ e[i].entity_uid = e[j].entity_uid)
            => ~(e[i].is_current /\ e[j].is_current)

\* ExclusionConstraint(entity_uid WITH =, tstzrange(...) WITH &&)
exclude_overlapping_entities_off(e) == TRUE

exclude_overlapping_entities(e) ==
    /\ \A i \in DOMAIN e : tstzrange_ok(e[i])
    /\ \A i, j \in DOMAIN e :
        (i < j /\ e[i].entity_uid = e[j].entity_uid)
            => ~ranges_overlap(e[i], e[j])

\* UniqueConstraint(fields=[entity, detail_type], condition=Q(is_current=True))
unique_current_entity_detail(d) ==
    \A i, j \in DOMAIN d :
        (i < j /\ d[i].entity = d[j].entity
               /\ d[i].detail_type = d[j].detail_type)
            => ~(d[i].is_current /\ d[j].is_current)

\* ExclusionConstraint(entity_id WITH =, detail_type_id WITH =, tstzrange WITH &&)
exclude_overlapping_details(d) ==
    /\ \A i \in DOMAIN d : tstzrange_ok(d[i])
    /\ \A i, j \in DOMAIN d :
        (i < j /\ d[i].entity = d[j].entity
               /\ d[i].detail_type = d[j].detail_type)
            => ~ranges_overlap(d[i], d[j])

\* A transaction in progress: the tables as written so far and whether a
\* statement has raised (the atomic block then rolls everything back).
Txn(e, d) == [e |-> e, d |-> d, ok |-> TRUE]

\* INSERT / UPDATE on table entity with no constraint declared
entity_write_unchecked(st, e2) ==
    IF ~st.ok THEN st ELSE [st EXCEPT !.e = e2]

\* INSERT / UPDATE on table entity, checked against its constraints
entity_write(st, e2) ==
    IF ~st.ok THEN st
    ELSE IF unique_current_entity(e2) /\ exclude_overlapping_entities(e2)
         THEN [st EXCEPT !.e = e2]
         ELSE [st EXCEPT !.ok = FALSE]

\* INSERT / UPDATE on table entity_detail, checked against its constraints
detail_write(st, d2) ==
    IF ~st.ok THEN st
    ELSE IF unique_current_entity_detail(d2) /\ exclude_overlapping_details(d2)
         THEN [st EXCEPT !.d = d2]
         ELSE [st EXCEPT !.ok = FALSE]

\* Entity.objects.create(...): save() computes hashdiff, then INSERT
Entity_objects_create(st, uid, display_name, entity_type, valid_from) ==
    entity_write(st, Append(st.e, Entity_save(
        [entity_uid |-> uid, display_name |-> display_name,
         entity_type |-> entity_type, hashdiff |-> <<>>,
         valid_from |-> valid_from, valid_to |-> Null, is_current |-> TRUE])))

\* EntityDetail.objects.create(...): save() computes hashdiff, then INSERT
EntityDetail_objects_create(st, entity, detail_type, detail_value, valid_from) ==
    detail_write(st, Append(st.d, EntityDetail_save(
        [entity |-> entity, detail_type |-> detail_type,
         detail_value |-> detail_value, hashdiff |-> <<>>,
         valid_from |-> valid_from, valid_to |-> Null, is_current |-> TRUE])))

\* Entity.objects.get(entity_uid=uid, is_current=True): the matching row ids
current_entity_ids(e, uid) ==
    {i \in DOMAIN e : e[i].entity_uid = uid /\ e[i].is_current}

\* The lookup of the current detail without the detail_type condition
current_detail_ids_any_type(d, entity, dt) ==
    {k \in DOMAIN d : d[k].entity = entity /\ d[k].is_current}

\* The lookup of the current detail by detail_type alone
current_detail_ids_any_version(d, entity, dt) ==
    {k \in DOMAIN d : d[k].detail_type = dt}

\* EntityDetail.objects.get(entity=row, detail_type=dt, is_current=True)
current_detail_ids(d, entity, dt) ==
    {k \in DOMAIN d : d[k].entity = entity /\ d[k].detail_type = dt
                      /\ d[k].is_current}

\* payload.get(key, default) on an optional field
get(opt, default) == IF opt = None THEN default ELSE opt[1]

\* ------------------------------------------------------------ UpdateService
\* DateTimeValidationService.parse_datetime: the instant a timestamp denotes
parse_datetime(change_ts) == change_ts

\* UpdateService._is_entity_change_needed
is_entity_change_needed(current_entity, payload) ==
    LET new_display_name == get(payload.display_name, current_entity.display_name)
        new_entity_type == get(payload.entity_type, current_entity.entity_type)
    IN  current_entity.hashdiff
            # compute_entity_hashdiff(new_display_name, new_entity_type)

\* UpdateService._is_detail_change_needed; current_detail is a set of at
\* most one row (empty when the lookup raised DoesNotExist)
is_detail_change_needed(d, current_detail, new_value) ==
    IF current_detail = {} THEN TRUE
    ELSE LET k == CHOOSE k \in current_detail : TRUE
         IN  d[k].hashdiff # compute_detail_hashdiff(new_value)

\* _close_current_entity ending the version at its own valid_from
close_current_entity_at_start(st, cur, new_valid_from) ==
    IF ~st.ok THEN st
    ELSE entity_write(st, [st.e EXCEPT ![cur] = Entity_save(
            [@ EXCEPT !.valid_to = st.e[cur].valid_from,
                      !.is_current = FALSE])])

\* UpdateService._close_current_entity
close_current_entity(st, cur, new_valid_from) ==
    IF ~st.ok THEN st
    ELSE entity_write(st, [st.e EXCEPT ![cur] = Entity_save(
            [@ EXCEPT !.valid_to = new_valid_from, !.is_current = FALSE])])

\* _create_new_entity carrying the current display_name over the payload's
create_new_entity_keep_name(st, cur, payload, new_valid_from) ==
    IF ~st.ok THEN st
    ELSE Entity_objects_create(st, st.e[cur].entity_uid,
            st.e[cur].display_name,
            get(payload.entity_type, st.e[cur].entity_type),
            new_valid_from)

\* UpdateService._create_new_entity
create_new_entity(st, cur, payload, new_valid_from) ==
    IF ~st.ok THEN st
    ELSE Entity_objects_create(st, st.e[cur].entity_uid,
            get(payload.display_name, st.e[cur].display_name),
            get(payload.entity_type, st.e[cur].entity_type),
            new_valid_from)

\* The loop iteration closing the current detail with is_current alone
update_one_detail_flag_only(st, cur, new, item, new_valid_from) ==
    IF ~st.ok THEN st
    ELSE LET current_detail == current_detail_ids(st.d, cur, item.detail_type)
         IN  IF is_detail_change_needed(st.d, current_detail, item.detail_value)
             THEN LET closed ==
                        IF current_detail = {} THEN st
                        ELSE LET k == CHOOSE k \in current_detail : TRUE
                             IN  detail_write(st, [st.d EXCEPT ![k] =
                                    EntityDetail_save([@ EXCEPT
                                        !.is_current = FALSE])])
                  IN  IF ~closed.ok THEN closed
                      ELSE EntityDetail_objects_create(closed, new,
                              item.detail_type, item.detail_value, new_valid_from)
             ELSE st

\* One iteration of the loop of UpdateService._update_details
update_one_detail(st, cur, new, item, new_valid_from) ==
    IF ~st.ok THEN st
    ELSE LET current_detail == current_detail_ids(st.d, cur, item.detail_type)
         IN  IF is_detail_change_needed(st.d, current_detail, item.detail_value)
             THEN LET closed ==
                        IF current_detail = {} THEN st
                        ELSE LET k == CHOOSE k \in current_detail : TRUE
                             IN  detail_write(st, [st.d EXCEPT ![k] =
                                    EntityDetail_save([@ EXCEPT
                                        !.valid_to = new_valid_from,
                                        !.is_current = FALSE])])
                  IN  IF ~closed.ok THEN closed
                      ELSE EntityDetail_objects_create(closed, new,
                              item.detail_type, item.detail_value, new_valid_from)
             ELSE st

\* UpdateService._update_details
RECURSIVE update_details(_, _, _, _, _)
update_details(st, cur, new, items, new_valid_from) ==
    IF items = <<>> THEN st
    ELSE update_details(
            update_one_detail(st, cur, new, Head(items), new_valid_from),
            cur, new, Tail(items), new_valid_from)

\* The scan reporting a needed detail update whatever the payload holds
details_need_update_always(d, cur, items) == TRUE

\* The scan of update_entity_idempotent for a detail that needs an update
details_need_update(d, cur, items) ==
    \E n \in DOMAIN items :
        is_detail_change_needed(d,
            current_detail_ids(d, cur, items[n].detail_type),
            items[n].detail_value)

\* update_entity_idempotent opening the new version without closing the current
\* one, written past the constraint-checked save (no partial unique index)
update_entity_idempotent_open_only(e, d, entity_uid, payload, change_ts, clock) ==
    LET found == current_entity_ids(e, entity_uid)
        new_valid_from == IF change_ts # Null THEN parse_datetime(change_ts)
                          ELSE clock
        none == [e |-> e, d |-> d, changed |-> FALSE, row |-> Null,
                 T |-> new_valid_from, cur |-> Null]
    IN  IF found = {}
        THEN none @@ [status |-> "not_found"]
        ELSE
        LET cur == CHOOSE i \in found : TRUE
        IN  IF ~is_entity_change_needed(e[cur], payload)
               /\ ~details_need_update(d, cur, payload.details)
            THEN [none EXCEPT !.row = cur, !.cur = cur] @@ [status |-> "ok"]
            ELSE [e |-> Append(e, Entity_save(
                        [entity_uid |-> entity_uid,
                         display_name |-> get(payload.display_name, e[cur].display_name),
                         entity_type |-> get(payload.entity_type, e[cur].entity_type),
                         hashdiff |-> <<>>, valid_from |-> new_valid_from,
                         valid_to |-> Null, is_current |-> TRUE])),
                  d |-> d, changed |-> TRUE, row |-> Len(e) + 1,
                  T |-> new_valid_from, cur |-> cur, status |-> "ok"]

\* update_entity_idempotent reporting only whether the entity fields changed
update_entity_idempotent_entity_flag(e, d, entity_uid, payload, change_ts, clock) ==
    LET found == current_entity_ids(e, entity_uid)
        new_valid_from == IF change_ts # Null THEN parse_datetime(change_ts)
                          ELSE clock
        none == [e |-> e, d |-> d, changed |-> FALSE, row |-> Null,
                 T |-> new_valid_from, cur |-> Null]
    IN  IF found = {}
        THEN none @@ [status |-> "not_found"]
        ELSE
        LET cur == CHOOSE i \in found : TRUE
            entity_needs_update == is_entity_change_needed(e[cur], payload)
            details_need == details_need_update(d, cur, payload.details)
        IN  IF ~entity_needs_update /\ ~details_need
            THEN [none EXCEPT !.row = cur, !.cur = cur] @@ [status |-> "ok"]
            ELSE
            LET s2 == create_new_entity(
                        close_current_entity(Txn(e, d), cur, new_valid_from),
                        cur, payload, new_valid_from)
                new == Len(e) + 1
                s3 == update_details(s2, cur, new, payload.details, new_valid_from)
            IN  IF s3.ok
                THEN [e |-> s3.e, d |-> s3.d, changed |-> entity_needs_update,
                      row |-> new, T |-> new_valid_from, cur |-> cur,
                      status |-> "ok"]
                ELSE [none EXCEPT !.cur = cur] @@ [status |-> "error"]

\* update_entity_idempotent creating the entity it does not find
update_entity_idempotent_upsert(e, d, entity_uid, payload, change_ts, clock) ==
    LET found == current_entity_ids(e, entity_uid)
        new_valid_from == IF change_ts # Null THEN parse_datetime(change_ts)
                          ELSE clock
        none == [e |-> e, d |-> d, changed |-> FALSE, row |-> Null,
                 T |-> new_valid_from, cur |-> Null]
    IN  IF found = {}
        THEN [e |-> Append(e, Entity_save(
                    [entity_uid |-> entity_uid,
                     display_name |-> get(payload.display_name, <<>>),
                     entity_type |-> get(payload.entity_type, <<"P">>),
                     hashdiff |-> <<>>, valid_from |-> new_valid_from,
                     valid_to |-> Null, is_current |-> TRUE])),
              d |-> d, changed |-> TRUE, row |-> Len(e) + 1,
              T |-> new_valid_from, cur |-> Null, status |-> "ok"]
        ELSE
        LET cur == CHOOSE i \in found : TRUE
            entity_needs_update == is_entity_change_needed(e[cur], payload)
            details_need == details_need_update(d, cur, payload.details)
        IN  IF ~entity_needs_update /\ ~details_need
            THEN [none EXCEPT !.row = cur, !.cur = cur] @@ [status |-> "ok"]
            ELSE
            LET s2 == create_new_entity(
                        close_current_entity(Txn(e, d), cur, new_valid_from),
                        cur, payload, new_valid_from)
                new == Len(e) + 1
                s3 == update_details(s2, cur, new, payload.details, new_valid_from)
            IN  IF s3.ok
                THEN [e |-> s3.e, d |-> s3.d, changed |-> TRUE, row |-> new,
                      T |-> new_valid_from, cur |-> cur, status |-> "ok"]
                ELSE [none EXCEPT !.cur = cur] @@ [status |-> "error"]

\* update_entity_idempotent versioning the details alone when the entity
\* fields are unchanged
update_entity_idempotent_details_only(e, d, entity_uid, payload, change_ts, clock) ==
    LET found == current_entity_ids(e, entity_uid)
        new_valid_from == IF change_ts # Null THEN parse_datetime(change_ts)
                          ELSE clock
        none == [e |-> e, d |-> d, changed |-> FALSE, row |-> Null,
                 T |-> new_valid_from, cur |-> Null]
    IN  IF found = {}
        THEN none @@ [status |-> "not_found"]
        ELSE
        LET cur == CHOOSE i \in found : TRUE
            entity_needs_update == is_entity_change_needed(e[cur], payload)
            details_need == details_need_update(d, cur, payload.details)
        IN  IF ~entity_needs_update /\ ~details_need
            THEN [none EXCEPT !.row = cur, !.cur = cur] @@ [status |-> "ok"]
            ELSE
            LET s2 == IF entity_needs_update
                      THEN create_new_entity(
                              close_current_entity(Txn(e, d), cur, new_valid_from),
                              cur, payload, new_valid_from)
                      ELSE Txn(e, d)
                new == IF entity_needs_update THEN Len(e) + 1 ELSE cur
                s3 == update_details(s2, cur, new, payload.details, new_valid_from)
            IN  IF s3.ok
                THEN [e |-> s3.e, d |-> s3.d, changed |-> TRUE, row |-> new,
                      T |-> new_valid_from, cur |-> cur, status |-> "ok"]
                ELSE [none EXCEPT !.cur = cur] @@ [status |-> "error"]

\* UpdateService.update_entity_idempotent(entity_uid, payload, change_ts):
\* the outcome of the whole atomic call on tables e, d at clock reading clock
update_entity_idempotent(e, d, entity_uid, payload, change_ts, clock) ==
    LET found == current_entity_ids(e, entity_uid)
        new_valid_from == IF change_ts # Null THEN parse_datetime(change_ts)
                          ELSE clock
        none == [e |-> e, d |-> d, changed |-> FALSE, row |-> Null,
                 T |-> new_valid_from, cur |-> Null]
    IN  IF found = {}
        THEN none @@ [status |-> "not_found"]
        ELSE
        LET cur == CHOOSE i \in found : TRUE
            entity_needs_update == is_entity_change_needed(e[cur], payload)
            details_need == details_need_update(d, cur, payload.details)
        IN  IF ~entity_needs_update /\ ~details_need
            THEN [none EXCEPT !.row = cur, !.cur = cur] @@ [status |-> "ok"]
            ELSE
            LET s2 == create_new_entity(
                        close_current_entity(Txn(e, d), cur, new_valid_from),
                        cur, payload, new_valid_from)
                new == Len(e) + 1
                s3 == update_details(s2, cur, new, payload.details, new_valid_from)
            IN  IF s3.ok
                THEN [e |-> s3.e, d |-> s3.d, changed |-> TRUE, row |-> new,
                      T |-> new_valid_from, cur |-> cur, status |-> "ok"]
                ELSE [none EXCEPT !.cur = cur] @@ [status |-> "error"]

\* UpdateService.update_entity (legacy): update_entity_idempotent without
\* change_ts; its ValueError becomes the result None (entity Null), any other
\* exception passes on
update_entity(e, d, entity_uid, payload, clock) ==
    LET r == update_entity_idempotent(e, d, entity_uid, payload, Null, clock)
    IN  IF r.status = "not_found"
        THEN [e |-> e, d |-> d, entity |-> Null, raised |-> FALSE]
        ELSE IF r.status = "ok"
        THEN [e |-> r.e, d |-> r.d, entity |-> r.row, raised |-> FALSE]
        ELSE [e |-> e, d |-> d, entity |-> Null, raised |-> TRUE]

\* ------------------------------------------------------------ CreateService
\* entity_uid = UUIDField(default=uuid.uuid4): an identifier not used before
new_uid(e) == 1 + Cardinality({e[i].entity_uid : i \in DOMAIN e})

\* d["detail_type"], d["detail_value"] and the assignment to the foreign key
\* detail_type: a missing key raises KeyError, a value that is no DetailType
\* raises ValueError
detail_item_accepted(item) ==
    /\ {"detail_type", "detail_value"} \subseteq DOMAIN item
    /\ item.detail_type \in DetailTypes

\* payload["display_name"], payload["entity_type"]: KeyError when missing
entity_keys_present(payload) ==
    {"display_name", "entity_type"} \subseteq DOMAIN payload

\* The loop over payload["details"] of CreateService.create_entity
RECURSIVE create_details(_, _, _, _)
create_details(st, entity, items, valid_from) ==
    IF items = <<>> \/ ~st.ok THEN st
    ELSE IF ~detail_item_accepted(Head(items)) THEN [st EXCEPT !.ok = FALSE]
    ELSE create_details(
            EntityDetail_objects_create(st, entity, Head(items).detail_type,
                Head(items).detail_value,
                IF Head(items).valid_from # Null THEN Head(items).valid_from
                ELSE valid_from),
            entity, Tail(items), valid_from)

\* create_entity outside transaction.atomic: the rows written before the
\* failing statement stay
create_entity_no_atomic(e, d, payload, clock) ==
    LET valid_from == IF payload.valid_from # Null THEN payload.valid_from
                      ELSE clock
    IN  IF ~entity_keys_present(payload)
        THEN [e |-> e, d |-> d, status |-> "error", row |-> Null,
              T |-> valid_from]
        ELSE
        LET s1 == Entity_objects_create(Txn(e, d), new_uid(e),
                      payload.display_name, payload.entity_type, valid_from)
            s2 == create_details(s1, Len(s1.e), payload.details, valid_from)
        IN  IF s2.ok
            THEN [e |-> s2.e, d |-> s2.d, status |-> "ok", row |-> Len(s2.e),
                  T |-> valid_from]
            ELSE [e |-> s2.e, d |-> s2.d, status |-> "error", row |-> Null,
                  T |-> valid_from]

\* CreateService.create_entity(payload)
create_entity(e, d, payload, clock) ==
    LET valid_from == IF payload.valid_from # Null THEN payload.valid_from
                      ELSE clock
    IN  IF ~entity_keys_present(payload)
        THEN [e |-> e, d |-> d, status |-> "error", row |-> Null,
              T |-> valid_from]
        ELSE
        LET s1 == Entity_objects_create(Txn(e, d), new_uid(e),
                      payload.display_name, payload.entity_type, valid_from)
            s2 == create_details(s1, Len(s1.e), payload.details, valid_from)
        IN  IF s2.ok
            THEN [e |-> s2.e, d |-> s2.d, status |-> "ok", row |-> Len(s2.e),
                  T |-> valid_from]
            ELSE [e |-> e, d |-> d, status |-> "error", row |-> Null,
                  T |-> valid_from]

\* ------------------------------------------------------------ AuditService
\* request.user when authenticated, else None
Users == {Null, 1}

\* A transaction that also writes table audit_log
TxnA(e, d, a) == [e |-> e, d |-> d, a |-> a, ok |-> TRUE]

\* AuditLog(...).save(): actor is a foreign key that does not accept NULL
AuditLog_save(st, row) ==
    IF ~st.ok THEN st
    ELSE IF row.actor = Null THEN [st EXCEPT !.ok = FALSE]
    ELSE [st EXCEPT !.a = Append(st.a, row)]

\* AuditService._create_audit_log
create_audit_log(st, entity_uid, table_name, operation, user, detail_code, clock) ==
    AuditLog_save(st, [entity_uid |-> entity_uid, table_name |-> table_name,
                       operation |-> operation, actor |-> user,
                       detail_code |-> detail_code, timestamp |-> clock])

\* AuditService.log_entity_change
log_entity_change(st, entity_uid, operation, user, clock) ==
    create_audit_log(st, entity_uid, "entity", operation, user, None, clock)

\* AuditService.log_detail_change: detail_code is a required argument, a call
\* that does not pass it raises TypeError
log_detail_change(st, entity_uid, detail_code, operation, user, clock) ==
    IF ~st.ok THEN st
    ELSE IF detail_code = None THEN [st EXCEPT !.ok = FALSE]
    ELSE create_audit_log(st, entity_uid, "entity_detail", operation, user,
                          detail_code[1], clock)

\* AuditService.compare_entity_data: the tracked fields
tracked_fields == {"display_name", "entity_type_id"}

\* getattr(old_entity, field, None)
entity_old_value(old_entity, field) ==
    IF field = "display_name" THEN Some(old_entity.display_name)
    ELSE Some(old_entity.entity_type)

\* new_data.get(field), replaced by new_data['entity_type'] for
\* entity_type_id when that key is present
entity_new_value(new_data, field) ==
    IF field = "entity_type_id" /\ "entity_type" \in DOMAIN new_data
    THEN Some(new_data["entity_type"])
    ELSE IF field \in DOMAIN new_data THEN Some(new_data[field])
    ELSE None

\* The empty dict
EmptyDict == [k \in {} |-> None]

\* AuditService.compare_entity_data(old_entity, new_data)
compare_entity_data(old_entity, new_data) ==
    LET differing == {field \in tracked_fields :
            entity_old_value(old_entity, field) # entity_new_value(new_data, field)}
        before == [field \in differing |-> entity_old_value(old_entity, field)]
        after == [field \in differing |-> entity_new_value(new_data, field)]
    IN  IF differing # {} THEN [before |-> before, after |-> after]
        ELSE EmptyDict

\* The audit block of CreateService.create_entity and
\* UpdateService.update_entity_idempotent: try: logger.info(...) except
\* Exception: logger.debug(...).  TRUE when the block completes without
\* raising, whether or not the logging call raised.
audit_logging_block(log_raises) == IF log_raises THEN TRUE ELSE TRUE

\* CreateService.create_entity with the outcome of its audit block
create_entity_logged(e, d, payload, clock, log_raises) ==
    LET r == create_entity(e, d, payload, clock)
    IN  IF r.status = "ok" /\ ~audit_logging_block(log_raises)
        THEN [e |-> e, d |-> d, status |-> "error", row |-> Null, T |-> r.T]
        ELSE r

\* UpdateService.update_entity_idempotent with the outcome of its audit block
update_entity_idempotent_logged(e, d, entity_uid, payload, change_ts, clock, log_raises) ==
    LET r == update_entity_idempotent(e, d, entity_uid, payload, change_ts, clock)
    IN  IF r.status = "ok" /\ ~audit_logging_block(log_raises)
        THEN [r EXCEPT !.e = e, !.d = d, !.changed = FALSE, !.row = Null,
                       !.status = "error"]
        ELSE r

\* ------------------------------------------------------------ EntityService
\* create_new_version as the callers in EntityService use it: the first
\* argument is the current record, the keyword arguments are the fields of
\* its successor; the record is closed and the successor opened at the clock
\* reading
SCD2Service_create_new_version_of_instance(st, model_class, data, kwargs, clock) ==
    IF ~st.ok THEN st
    ELSE IF model_class.model = "Entity"
    THEN Entity_objects_create(
            entity_write(st, [st.e EXCEPT ![model_class.id] = Entity_save(
                [@ EXCEPT !.valid_to = clock, !.is_current = FALSE])]),
            st.e[model_class.id].entity_uid, kwargs.display_name,
            kwargs.entity_type, clock)
    ELSE EntityDetail_objects_create(
            detail_write(st, [st.d EXCEPT ![model_class.id] = EntityDetail_save(
                [@ EXCEPT !.valid_to = clock, !.is_current = FALSE])]),
            kwargs.entity, kwargs.detail_type, kwargs.detail_value, clock)

\* SCD2Service.create_new_version(model_class, data): inserts a record opened
\* at the clock reading; a call without data or with keyword arguments the
\* signature does not have raises TypeError
SCD2Service_create_new_version(st, model_class, data, kwargs, clock) ==
    IF ~st.ok THEN st
    ELSE IF data = None \/ DOMAIN kwargs # {} THEN [st EXCEPT !.ok = FALSE]
    ELSE Entity_objects_create(st, data[1].entity_uid, data[1].display_name,
                               data[1].entity_type, clock)

\* EntityService._parse_input_data: both entity fields are required
parse_input_data(data) ==
    data.display_name # None /\ data.entity_type # None

\* EntityService._is_detail_unchanged
is_detail_unchanged(old_detail, detail_type, detail_value) ==
    HashService_compute(<<detail_value, detail_type>>) = old_detail.hashdiff

\* EntityService._are_details_unchanged
are_details_unchanged(d, cur, details_data) ==
    LET current_details == {k \in DOMAIN d : d[k].entity = cur /\ d[k].is_current}
        codes == {d[k].detail_type : k \in current_details}
    IN  /\ Len(details_data) = Cardinality(codes)
        /\ \A n \in DOMAIN details_data :
            \E k \in current_details :
                /\ d[k].detail_type = details_data[n].detail_type
                /\ is_detail_unchanged(d[k], details_data[n].detail_type,
                                       details_data[n].detail_value)

\* EntityService._is_entity_unchanged
is_entity_unchanged(e, d, cur, data) ==
    LET entity_unchanged ==
            HashService_compute(<<data.display_name[1], data.entity_type[1]>>)
                = e[cur].hashdiff
    IN  IF data.details = <<>> THEN entity_unchanged
        ELSE entity_unchanged /\ are_details_unchanged(d, cur, data.details)

\* EntityService._create_detail_instance: the audit call, made without
\* detail_code, precedes the save of the detail
create_detail_instance(st, entity, detail_type, detail_value, user, clock) ==
    IF ~st.ok THEN st
    ELSE EntityDetail_objects_create(
            log_detail_change(st, st.e[entity].entity_uid, None, "INSERT",
                              user, clock),
            entity, detail_type, detail_value, st.e[entity].valid_from)

\* EntityService._get_detail_type: DetailType.objects.get(code=...) finds the
\* type, or ValidationError
get_detail_type(detail_type_code) == detail_type_code \in DetailTypes

\* The loop over details_data of EntityService.create
RECURSIVE create_detail_instances(_, _, _, _, _)
create_detail_instances(st, entity, items, user, clock) ==
    IF items = <<>> \/ ~st.ok THEN st
    ELSE IF ~get_detail_type(Head(items).detail_type)
    THEN [st EXCEPT !.ok = FALSE]
    ELSE create_detail_instances(
            create_detail_instance(st, entity, Head(items).detail_type,
                                   Head(items).detail_value, user, clock),
            entity, Tail(items), user, clock)

\* EntityService.create(data, user)
EntityService_create(e, d, a, data, user, clock) ==
    LET failed == [e |-> e, d |-> d, a |-> a, status |-> "error",
                   changed |-> FALSE, row |-> Null]
    IN  IF ~parse_input_data(data) THEN failed
        ELSE
        LET s1 == Entity_objects_create(TxnA(e, d, a), new_uid(e),
                      data.display_name[1], data.entity_type[1], clock)
            s2 == log_entity_change(s1, new_uid(e), "INSERT", user, clock)
            s3 == create_detail_instances(s2, Len(e) + 1, data.details, user, clock)
        IN  IF s3.ok
            THEN [e |-> s3.e, d |-> s3.d, a |-> s3.a, status |-> "ok",
                  changed |-> TRUE, row |-> Len(e) + 1]
            ELSE failed

\* EntityService._create_new_entity_version: create_new_version is called
\* with the current entity and keyword arguments display_name, entity_type
create_new_entity_version(st, cur, data, clock) ==
    SCD2Service_create_new_version(st, [model |-> "Entity", id |-> cur], None,
        [display_name |-> data.display_name[1],
         entity_type |-> data.entity_type[1]], clock)

\* The call create_new_version(old_detail, entity=..., detail_type=...,
\* detail_value=...) of the detail synchronization, with the two saves
detail_new_version(st, new_entity, old_detail, detail_type, detail_value, clock) ==
    IF ~st.ok THEN st
    ELSE SCD2Service_create_new_version(st,
            [model |-> "EntityDetail", id |-> old_detail], None,
            [entity |-> new_entity, detail_type |-> detail_type,
             detail_value |-> detail_value], clock)

\* EntityService._copy_existing_details
RECURSIVE copy_existing_details(_, _, _, _)
copy_existing_details(st, new_entity, current_details, clock) ==
    IF current_details = {} \/ ~st.ok THEN st
    ELSE LET k == CHOOSE k \in current_details : TRUE
         IN  copy_existing_details(
                detail_new_version(st, new_entity, k, st.d[k].detail_type,
                                   st.d[k].detail_value, clock),
                new_entity, current_details \ {k}, clock)

\* EntityService._close_unprovided_details
close_unprovided_details(st, new_entity, current_details, details_data, clock) ==
    copy_existing_details(st, new_entity,
        {k \in current_details : \A n \in DOMAIN details_data :
            details_data[n].detail_type # st.d[k].detail_type},
        clock)

\* EntityService._update_existing_detail
update_existing_detail(st, old_detail, new_entity, detail_type, new_detail_value, user, clock) ==
    IF ~st.ok THEN st
    ELSE IF is_detail_unchanged(st.d[old_detail], detail_type, new_detail_value)
    THEN create_detail_instance(st, new_entity, detail_type, new_detail_value,
                                user, clock)
    ELSE detail_new_version(st, new_entity, old_detail, detail_type,
                            new_detail_value, clock)

\* EntityService._process_provided_details
RECURSIVE process_provided_details(_, _, _, _, _, _)
process_provided_details(st, new_entity, current_details, details_data, user, clock) ==
    IF details_data = <<>> \/ ~st.ok THEN st
    ELSE IF ~get_detail_type(Head(details_data).detail_type)
    THEN [st EXCEPT !.ok = FALSE]
    ELSE LET old == {k \in current_details :
                        st.d[k].detail_type = Head(details_data).detail_type}
             done ==
                IF old # {}
                THEN update_existing_detail(st, CHOOSE k \in old : TRUE,
                        new_entity, Head(details_data).detail_type,
                        Head(details_data).detail_value, user, clock)
                ELSE create_detail_instance(st, new_entity,
                        Head(details_data).detail_type,
                        Head(details_data).detail_value, user, clock)
         IN  process_provided_details(done, new_entity, current_details,
                                      Tail(details_data), user, clock)

\* EntityService._synchronize_details
synchronize_details(st, current_entity, new_entity, details_data, user, clock) ==
    IF ~st.ok THEN st
    ELSE LET current_details == {k \in DOMAIN st.d :
                st.d[k].entity = current_entity /\ st.d[k].is_current}
         IN  IF details_data # <<>>
             THEN close_unprovided_details(
                    process_provided_details(st, new_entity, current_details,
                                             details_data, user, clock),
                    new_entity, current_details, details_data, clock)
             ELSE copy_existing_details(st, new_entity, current_details, clock)

\* EntityService.update(entity_uid, data, user)
EntityService_update(e, d, a, entity_uid, data, user, clock) ==
    LET found == current_entity_ids(e, entity_uid)
        failed == [e |-> e, d |-> d, a |-> a, status |-> "error",
                   changed |-> FALSE, row |-> Null]
    IN  IF ~parse_input_data(data) THEN failed
        ELSE IF found = {} THEN [failed EXCEPT !.status = "not_found"]
        ELSE
        LET cur == CHOOSE i \in found : TRUE
        IN  IF is_entity_unchanged(e, d, cur, data)
            THEN [failed EXCEPT !.status = "ok", !.row = cur]
            ELSE
            LET s1 == create_new_entity_version(TxnA(e, d, a), cur, data, clock)
                s2 == synchronize_details(s1, cur, Len(s1.e), data.details,
                                          user, clock)
            IN  IF s2.ok
                THEN [e |-> s2.e, d |-> s2.d, a |-> s2.a, status |-> "ok",
                      changed |-> TRUE, row |-> Len(s2.e)]
                ELSE failed

\* -------------------------------------------------------------- SCD2Service
\* SCD2Service.SYSTEM_FIELDS
SYSTEM_FIELDS == {"valid_from", "valid_to", "is_current", "created_at", "updated_at"}

\* The model classes with the SCD2 system fields
ModelClasses == {"Entity", "EntityDetail"}

\* SCD2Service._validate_update_data: ValueError when update_data names a
\* system field
validate_update_data(update_data) ==
    SYSTEM_FIELDS \cap DOMAIN update_data = {}

\* SCD2Service._get_current_record: the rows objects.get(...) matches.  One
\* row is the current record, none is DoesNotExist (None), more than one
\* raises MultipleObjectsReturned.
get_current_record(st, model_class, entity_uid, detail_type_id) ==
    IF model_class = "Entity"
    THEN current_entity_ids(st.e, entity_uid)
    ELSE IF detail_type_id # None
    THEN {k \in DOMAIN st.d : /\ st.d[k].entity = entity_uid
                               /\ st.d[k].detail_type = detail_type_id[1]
                               /\ st.d[k].is_current}
    ELSE {k \in DOMAIN st.d : st.d[k].entity = entity_uid /\ st.d[k].is_current}

\* SCD2Service._close_current_record: now = timezone.now(), then
\* save(update_fields=[valid_to, is_current, updated_at])
close_current_record(st, model_class, current_record, clock) ==
    IF ~st.ok THEN st
    ELSE IF model_class = "Entity"
    THEN entity_write(st, [st.e EXCEPT ![current_record] =
            [@ EXCEPT !.valid_to = clock, !.is_current = FALSE]])
    ELSE detail_write(st, [st.d EXCEPT ![current_record] =
            [@ EXCEPT !.valid_to = clock, !.is_current = FALSE]])

\* The value the new record gets for a field: the one of update_data, else
\* the current record's when the field is no relation, else none
new_record_value(update_data, key, current_value, is_relation) ==
    IF key \in DOMAIN update_data THEN update_data[key]
    ELSE IF is_relation THEN None
    ELSE current_value

\* SCD2Service._create_new_record: now = timezone.now() read again; the
\* fields of update_data, then the fields of the current record that are
\* neither system fields nor id nor relations; model_class(**data).save().
\* A record without its entity_type or detail_type cannot be saved.
create_new_record(st, model_class, entity_uid, update_data, current_record, clock) ==
    IF ~st.ok THEN st
    ELSE IF model_class = "Entity"
    THEN LET display_name == new_record_value(update_data, "display_name",
                                st.e[current_record].display_name, FALSE)
             entity_type == new_record_value(update_data, "entity_type",
                                st.e[current_record].entity_type, TRUE)
         IN  IF entity_type = None THEN [st EXCEPT !.ok = FALSE]
             ELSE Entity_objects_create(st, entity_uid, display_name,
                                        entity_type, clock)
    ELSE LET detail_value == new_record_value(update_data, "detail_value",
                                st.d[current_record].detail_value, FALSE)
             detail_type == new_record_value(update_data, "detail_type_id",
                                st.d[current_record].detail_type, TRUE)
         IN  IF detail_type = None THEN [st EXCEPT !.ok = FALSE]
             ELSE EntityDetail_objects_create(st, entity_uid, detail_type,
                                              detail_value, clock)

\* SCD2Service.update_entity(model_class, entity_uid, update_data): the
\* outcome of the call when timezone.now() reads clock1 in
\* _close_current_record and clock2 in _create_new_record
SCD2Service_update_entity(e, d, model_class, entity_uid, update_data, clock1, clock2) ==
    LET none == [e |-> e, d |-> d, cur |-> Null, row |-> Null]
        detail_type_id ==
            IF model_class = "EntityDetail" /\ "detail_type_id" \in DOMAIN update_data
            THEN Some(update_data["detail_type_id"]) ELSE None
        found == get_current_record(Txn(e, d), model_class, entity_uid,
                                    detail_type_id)
    IN  IF ~validate_update_data(update_data)
        THEN none @@ [status |-> "error"]
        ELSE IF Cardinality(found) > 1
        THEN none @@ [status |-> "error"]
        ELSE IF found = {}
        THEN none @@ [status |-> "not_found"]
        ELSE
        LET current_record == CHOOSE k \in found : TRUE
            s1 == close_current_record(Txn(e, d), model_class, current_record,
                                       clock1)
            s2 == create_new_record(s1, model_class, entity_uid, update_data,
                                    current_record, clock2)
        IN  IF s2.ok
            THEN [e |-> s2.e, d |-> s2.d, cur |-> current_record,
                  row |-> IF model_class = "Entity" THEN Len(s2.e) ELSE Len(s2.d),
                  status |-> "ok"]
            ELSE [none EXCEPT !.cur = current_record] @@ [status |-> "error"]

\* ------------------------------------------------------------ as-of queries
\* Q(valid_from__lte=t) & (Q(valid_to__isnull=True) | Q(valid_to__gt=t))
valid_at(row, t) ==
    row.valid_from <= t /\ (row.valid_to = Null \/ row.valid_to > t)

\* The details filter keyed on the Entity row valid at t (entity = row)
details_of_uid_as_of_row(e, d, entity_uid, t) ==
    {k \in DOMAIN d : /\ e[d[k].entity].entity_uid = entity_uid
                      /\ valid_at(e[d[k].entity], t)
                      /\ valid_at(d[k], t)}

\* The details filter of the snapshots: entity__entity_uid = uid, valid at t
details_of_uid_as_of(e, d, entity_uid, t) ==
    {k \in DOMAIN d : e[d[k].entity].entity_uid = entity_uid /\ valid_at(d[k], t)}

\* Prefetch('details', queryset=<valid at t>): the details that reference the
\* Entity row through their foreign key and are valid at t
details_prefetch(d, entity, t) ==
    {k \in DOMAIN d : d[k].entity = entity /\ valid_at(d[k], t)}

\* The result None of get_entity_as_of
NoSnapshot == [entity |-> Null, details |-> {}]

\* get_entity_as_of requiring valid_from < as_of_date
get_entity_as_of_strict(e, d, entity_uid, as_of_date) ==
    LET matching == {i \in DOMAIN e : /\ e[i].entity_uid = entity_uid
                                      /\ e[i].valid_from < as_of_date
                                      /\ valid_at(e[i], as_of_date)}
    IN  IF matching = {} THEN {NoSnapshot}
        ELSE {[entity |-> i,
               details |-> details_of_uid_as_of(e, d, entity_uid, as_of_date)] :
              i \in {i \in matching : \A j \in matching :
                                        e[j].valid_from <= e[i].valid_from}}

\* AsOfService.get_entity_as_of: the results .first() can give under the
\* ordering -valid_from (rows of equal valid_from come in either order),
\* None when no version matches
get_entity_as_of(e, d, entity_uid, as_of_date) ==
    LET matching == {i \in DOMAIN e : /\ e[i].entity_uid = entity_uid
                                      /\ valid_at(e[i], as_of_date)}
    IN  IF matching = {} THEN {NoSnapshot}
        ELSE {[entity |-> i,
               details |-> details_of_uid_as_of(e, d, entity_uid, as_of_date)] :
              i \in {i \in matching : \A j \in matching :
                                        e[j].valid_from <= e[i].valid_from}}

\* AsOfService.get_entities_as_of: the snapshots of all entities valid at t
AsOfService_get_entities_as_of(e, d, as_of_date) ==
    {[entity |-> i,
      details |-> details_of_uid_as_of(e, d, e[i].entity_uid, as_of_date)] :
     i \in {i \in DOMAIN e : valid_at(e[i], as_of_date)}}

\* AsOfService.get_queryset: the entities valid at as_of with details_as_of
AsOfService_get_queryset(e, d, filters) ==
    IF filters.as_of = Null THEN {}
    ELSE LET as_of == parse_datetime(filters.as_of)
         IN  {[entity |-> i, details |-> details_prefetch(d, i, as_of)] :
              i \in {i \in DOMAIN e : valid_at(e[i], as_of)}}

\* ListService.get_entities_as_of
ListService_get_entities_as_of(e, d, as_of) ==
    {[entity |-> i, details |-> details_prefetch(d, i, as_of)] :
     i \in {i \in DOMAIN e : valid_at(e[i], as_of)}}

\* ------------------------------------------------------------------- diff
\* One result per element of U, each taken from the results Options allows
\* for it: the unions of the chosen change sets
Combine(U, Options(_)) ==
    {UNION {f[u] : u \in U} :
     f \in {f \in [U -> UNION {Options(u) : u \in U}] :
            \A u \in U : f[u] \in Options(u)}}

\* The EntityDetail rows that share entity_uid, detail_type and valid_from
\* with another row: ORDER BY -valid_from leaves their order to the table
tied_details(e, d) ==
    {k \in DOMAIN d : \E j \in DOMAIN d :
        /\ j # k
        /\ e[d[j].entity].entity_uid = e[d[k].entity].entity_uid
        /\ d[j].detail_type = d[k].detail_type
        /\ d[j].valid_from = d[k].valid_from}

\* The orders in which the table can return the rows of equal valid_from
\* while a request is served (a position for each such row)
heap_orders(e, d) ==
    LET tied == tied_details(e, d)
    IN  {h \in [tied -> 1..Cardinality(tied)] :
         \A j \in tied, k \in tied : h[j] = h[k] => j = k}

\* {d['detail_type']: d for d in details}, the rows coming ordered by
\* -valid_from: the entry of a type is the last row of that type, the one of
\* least valid_from, and of several such rows the last in the table's order
details_map(d, ks, heap) ==
    LET types == {d[k].detail_type : k \in ks}
        oldest(c) == {k \in ks : /\ d[k].detail_type = c
                                 /\ \A j \in ks : d[j].detail_type = c
                                        => d[k].valid_from <= d[j].valid_from}
        last(c) == CHOOSE k \in oldest(c) :
                       \A j \in oldest(c) : j # k => heap[j] < heap[k]
    IN  [c \in types |-> d[last(c)].detail_value]

\* One entry of a change list of the snapshot comparison
Change(uid, change_type, field, from_value, to_value) ==
    [entity_uid |-> uid, change_type |-> change_type, field |-> field,
     from_value |-> from_value, to_value |-> to_value]

\* The 'field' of a detail change: f'detail_{detail_type}'
detail_field(detail_type) == <<"detail_">> \o detail_type

\* DiffService._compare_details, the details ordered as the table gives them
compare_details(d, entity_uid, from_details, to_details, heap) ==
    LET from_details_map == details_map(d, from_details, heap)
        to_details_map == details_map(d, to_details, heap)
        all_detail_types == DOMAIN from_details_map \cup DOMAIN to_details_map
        entry(c) ==
            IF c \notin DOMAIN from_details_map
            THEN {Change(entity_uid, "detail_added", detail_field(c),
                         None, Some(to_details_map[c]))}
            ELSE IF c \notin DOMAIN to_details_map
            THEN {Change(entity_uid, "detail_removed", detail_field(c),
                         Some(from_details_map[c]), None)}
            ELSE IF from_details_map[c] # to_details_map[c]
            THEN {Change(entity_uid, "detail_changed", detail_field(c),
                         Some(from_details_map[c]), Some(to_details_map[c]))}
            ELSE {}
    IN  UNION {entry(c) : c \in all_detail_types}

\* The dictionary value the entity-level entries carry
entity_value(row) ==
    <<row.display_name, row.entity_type>>

\* DiffService._compare_entity_snapshots (from_entity, to_entity: a snapshot
\* or NoSnapshot for None)
compare_entity_snapshots(e, d, entity_uid, from_entity, to_entity, heap) ==
    IF from_entity.entity = Null /\ to_entity.entity # Null
    THEN {Change(entity_uid, "entity_created", <<"entity">>, None,
                 Some(entity_value(e[to_entity.entity])))}
    ELSE IF from_entity.entity # Null /\ to_entity.entity = Null
    THEN {Change(entity_uid, "entity_deleted", <<"entity">>,
                 Some(entity_value(e[from_entity.entity])), None)}
    ELSE IF from_entity.entity # Null /\ to_entity.entity # Null
    THEN LET f == e[from_entity.entity]
             t == e[to_entity.entity]
             name == IF f.display_name # t.display_name
                     THEN {Change(entity_uid, "field_changed",
                                  <<"display_name">>, Some(f.display_name),
                                  Some(t.display_name))}
                     ELSE {}
             type == IF f.entity_type # t.entity_type
                     THEN {Change(entity_uid, "field_changed",
                                  <<"entity_type">>, Some(f.entity_type),
                                  Some(t.entity_type))}
                     ELSE {}
         IN  name \cup type
                 \cup compare_details(d, entity_uid, from_entity.details,
                                      to_entity.details, heap)
    ELSE {}

\* {item['entity_uid']: item for item in snapshot}.get(entity_uid): the last
\* item of that entity_uid in the order -valid_from, None when there is none
snapshot_get(e, snapshot, entity_uid) ==
    LET items == {s \in snapshot : e[s.entity].entity_uid = entity_uid}
    IN  IF items = {} THEN {NoSnapshot}
        ELSE {s \in items : \A s2 \in items :
                  e[s.entity].valid_from <= e[s2.entity].valid_from}

\* DiffService.get_entities_diff comparing the snapshots of AsOfService: the
\* change lists it can return, as sets of entries
get_entities_diff_HEAD(e, d, from_date, to_date) ==
    LET from_snapshot == AsOfService_get_entities_as_of(e, d, from_date)
        to_snapshot == AsOfService_get_entities_as_of(e, d, to_date)
        all_entity_uids == {e[s.entity].entity_uid :
                            s \in from_snapshot \cup to_snapshot}
        changes_of(uid, heap) ==
            {compare_entity_snapshots(e, d, uid, f, t, heap) :
             f \in snapshot_get(e, from_snapshot, uid),
             t \in snapshot_get(e, to_snapshot, uid)}
    IN  UNION {LET changes_in(uid) == changes_of(uid, heap)
               IN  Combine(all_entity_uids, changes_in) :
               heap \in heap_orders(e, d)}

\* DiffService.get_entity_diff
get_entity_diff(e, d, entity_uid, from_date, to_date) ==
    {compare_entity_snapshots(e, d, entity_uid, f, t, heap) :
     f \in get_entity_as_of(e, d, entity_uid, from_date),
     t \in get_entity_as_of(e, d, entity_uid, to_date),
     heap \in heap_orders(e, d)}

\* A request parameter: a datetime, a string (value Null when the text is no
\* ISO 8601 datetime), or a value of another type
Params == [kind : {"datetime", "str"}, value : Time]
          \cup {[kind |-> "str", value |-> Null], [kind |-> "other", value |-> Null]}

\* DateTimeService.validate_and_parse: the instant in UTC, or ValueError
validate_and_parse(param) ==
    IF param.kind = "datetime" THEN [status |-> "ok", dt |-> param.value]
    ELSE IF param.kind # "str" THEN [status |-> "ValueError", dt |-> Null]
    ELSE IF param.value = Null THEN [status |-> "ValueError", dt |-> Null]
    ELSE [status |-> "ok", dt |-> param.value]

\* DiffQuerySerializer.validate: the attrs with the parsed dates, or a
\* ValidationError
DiffQuerySerializer_validate(attrs) ==
    LET from_date == validate_and_parse(attrs.from_date)
        to_date == validate_and_parse(attrs.to_date)
        error == [status |-> "ValidationError", parsed_from_date |-> Null,
                  parsed_to_date |-> Null]
    IN  IF from_date.status # "ok" \/ to_date.status # "ok" THEN error
        ELSE IF from_date.dt >= to_date.dt THEN error
        ELSE [status |-> "ok", parsed_from_date |-> from_date.dt,
              parsed_to_date |-> to_date.dt]

\* EntitiesDiffAPIView.get: is_valid(raise_exception=True) answers 400
\* before the service is called; otherwise the changes of the service
EntitiesDiffAPIView_get(e, d, query_params) ==
    LET v == DiffQuerySerializer_validate(query_params)
    IN  IF v.status # "ok" THEN {[status |-> 400, changes |-> {}]}
        ELSE {[status |-> 200, changes |-> chs] :
              chs \in get_entities_diff_HEAD(e, d, v.parsed_from_date,
                                             v.parsed_to_date)}

\* validate_diff_params rejecting only from > to
validate_diff_params_non_strict(fr, to) ==
    LET from_dt == parse_datetime(fr)
        to_dt == parse_datetime(to)
    IN  IF from_dt > to_dt
        THEN [status |-> "ValueError", from_dt |-> Null, to_dt |-> Null]
        ELSE [status |-> "ok", from_dt |-> from_dt, to_dt |-> to_dt]

\* DiffService.validate_diff_params
validate_diff_params(fr, to) ==
    LET from_dt == parse_datetime(fr)
        to_dt == parse_datetime(to)
    IN  IF from_dt >= to_dt
        THEN [status |-> "ValueError", from_dt |-> Null, to_dt |-> Null]
        ELSE [status |-> "ok", from_dt |-> from_dt, to_dt |-> to_dt]

\* The entry of one entity in a snapshot of DiffService.get_snapshot
SnapshotEntry(row, details_by_code) ==
    [display_name |-> row.display_name, entity_type |-> row.entity_type,
     details |-> details_by_code]

\* DiffService.get_snapshot: the dictionaries entity_uid -> entry it can
\* build; rows are visited in the order -valid_from and a later row
\* replaces the entry of its key
get_snapshot(e, d, dt, heap) ==
    LET ents == {i \in DOMAIN e : valid_at(e[i], dt)}
        uids == {e[i].entity_uid : i \in ents}
        last(u) == {i \in ents : /\ e[i].entity_uid = u
                                 /\ \A j \in ents : e[j].entity_uid = u
                                        => e[i].valid_from <= e[j].valid_from}
        entries(u) ==
            {SnapshotEntry(e[i], details_map(
                 d, details_of_uid_as_of(e, d, u, dt), heap)) : i \in last(u)}
    IN  {snap \in [uids -> UNION {entries(u) : u \in uids}] :
         \A u \in uids : snap[u] \in entries(u)}

\* snapshot.get(uid, {}).get(field)
snapshot_field(snap, uid, field) ==
    IF uid \notin DOMAIN snap THEN None
    ELSE IF field = "display_name" THEN Some(snap[uid].display_name)
    ELSE Some(snap[uid].entity_type)

\* b.get("details", {}) after the created / deleted adjustment
snapshot_details(snap, uid) ==
    IF uid \in DOMAIN snap THEN snap[uid].details ELSE <<>>

\* The changes of one entity in DiffService.get_entities_diff
entity_changes(before, after, uid) ==
    LET created == IF uid \notin DOMAIN before /\ uid \in DOMAIN after
                   THEN {[type |-> "entity", action |-> "created"]}
                   ELSE {}
        deleted == IF uid \in DOMAIN before /\ uid \notin DOMAIN after
                   THEN {[type |-> "entity", action |-> "deleted"]}
                   ELSE {}
        core == {[type |-> "field", field |-> <<field>>,
                  from |-> snapshot_field(before, uid, field),
                  to |-> snapshot_field(after, uid, field)] :
                 field \in {f \in {"display_name", "entity_type"} :
                            snapshot_field(before, uid, f)
                                # snapshot_field(after, uid, f)}}
        b == snapshot_details(before, uid)
        a == snapshot_details(after, uid)
        value(m, code) == IF code \in DOMAIN m THEN Some(m[code]) ELSE None
        codes == DOMAIN b \cup DOMAIN a
        detail == {[type |-> "detail", field |-> code,
                    from |-> value(b, code), to |-> value(a, code)] :
                   code \in {c \in codes : value(b, c) # value(a, c)}}
    IN  created \cup deleted \cup core \cup detail

\* DiffService.get_entities_diff: the outcomes of a call, the grouped list
\* as a set of {entity_uid, changes} with the changes as a set
get_entities_diff(e, d, fr, to) ==
    LET v == validate_diff_params(fr, to)
        grouped(before, after) ==
            {[entity_uid |-> uid,
              changes |-> entity_changes(before, after, uid)] :
             uid \in {u \in DOMAIN before \cup DOMAIN after :
                      entity_changes(before, after, u) # {}}}
    IN  IF v.status # "ok" THEN {[status |-> v.status, result |-> {}]}
        ELSE UNION {{[status |-> "ok", result |-> grouped(before, after)] :
                     before \in get_snapshot(e, d, v.from_dt, heap),
                     after \in get_snapshot(e, d, v.to_dt, heap)} :
                    heap \in heap_orders(e, d)}

\* ---------------------------------------------------------------- history
\* The history entry of an Entity version
entity_entry(row) ==
    [type |-> "entity", valid_from |-> row.valid_from,
     valid_to |-> row.valid_to, is_current |-> row.is_current,
     changes |-> <<row.display_name, row.entity_type>>,
     hashdiff |-> row.hashdiff, entity_uid |-> row.entity_uid]

\* The history entry of an EntityDetail version
detail_entry(e, row) ==
    [type |-> "detail", valid_from |-> row.valid_from,
     valid_to |-> row.valid_to, is_current |-> row.is_current,
     changes |-> <<row.detail_type, row.detail_value>>,
     hashdiff |-> row.hashdiff, entity_uid |-> e[row.entity].entity_uid]

\* A row of the history, <<"entity", i>> or <<"detail", k>>, as its entry
history_entry(e, d, item) ==
    IF item[1] = "entity" THEN entity_entry(e[item[2]])
    ELSE detail_entry(e, d[item[2]])

\* valid_from of a row of the history
history_key(e, d, item) ==
    IF item[1] = "entity" THEN e[item[2]].valid_from ELSE d[item[2]].valid_from

\* The lists history_entries.sort(key=valid_from, reverse=True) can give for
\* the rows in items: valid_from descending; the sort is stable, so among
\* rows of equal valid_from the entity rows, appended first, stay before the
\* detail rows, and rows of one table keep the order the query gave them
RECURSIVE sorted_newest_first(_, _, _)
sorted_newest_first(e, d, items) ==
    IF items = {} THEN {<<>>}
    ELSE LET newest == {x \in items : \A y \in items :
                            history_key(e, d, y) <= history_key(e, d, x)}
             first == IF \E x \in newest : x[1] = "entity"
                      THEN {x \in newest : x[1] = "entity"}
                      ELSE newest
         IN  UNION {{<<history_entry(e, d, x)>> \o rest :
                     rest \in sorted_newest_first(e, d, items \ {x})} :
                    x \in first}

\* The list before the sort: the Entity versions, then the EntityDetail
\* versions, each ordered by -valid_from
RECURSIVE appended_in_query_order(_, _, _)
appended_in_query_order(e, d, items) ==
    IF items = {} THEN {<<>>}
    ELSE LET table == IF \E x \in items : x[1] = "entity" THEN "entity"
                      ELSE "detail"
             rows == {x \in items : x[1] = table}
             first == {x \in rows : \A y \in rows :
                           history_key(e, d, y) <= history_key(e, d, x)}
         IN  UNION {{<<history_entry(e, d, x)>> \o rest :
                     rest \in appended_in_query_order(e, d, items \ {x})} :
                    x \in first}

\* The rows get_combined_history collects: Entity.objects.filter(entity_uid)
\* and EntityDetail.objects.filter(entity__entity_uid)
history_rows(e, d, entity_uid) ==
    {<<"entity", i>> : i \in {i \in DOMAIN e : e[i].entity_uid = entity_uid}}
    \cup {<<"detail", k>> :
          k \in {k \in DOMAIN d : e[d[k].entity].entity_uid = entity_uid}}

\* The rows collected when the details are taken from the current Entity row
history_rows_current(e, d, entity_uid) ==
    {<<"entity", i>> : i \in {i \in DOMAIN e : e[i].entity_uid = entity_uid}}
    \cup {<<"detail", k>> :
          k \in {k \in DOMAIN d : /\ e[d[k].entity].entity_uid = entity_uid
                                  /\ e[d[k].entity].is_current}}

\* get_combined_history without its final sort
get_combined_history_unsorted(e, d, entity_uid) ==
    appended_in_query_order(e, d, history_rows(e, d, entity_uid))

\* get_combined_history with the details of the current Entity row only
get_combined_history_current(e, d, entity_uid) ==
    sorted_newest_first(e, d, history_rows_current(e, d, entity_uid))

\* HistoryService.get_combined_history: the lists it can return
get_combined_history(e, d, entity_uid) ==
    sorted_newest_first(e, d, history_rows(e, d, entity_uid))

\* ------------------------------------------------------------------ inputs
OptTime == {Null} \cup Time

Opt(S) == {None} \cup {Some(v) : v \in S}

Item(dt, val) == [detail_type |-> dt, detail_value |-> val]

\* Detail entries of update payloads: every value for "e", one for "p"
UpdateItems == {Item(<<"e">>, v) : v \in Values} \cup {Item(<<"p">>, <<"x">>)}

\* Detail entries of create payloads, without a valid_from of their own
CreateItems == {Item(dt, <<"x">>) @@ [valid_from |-> Null] : dt \in DetailTypes}

Lists(S) == UNION {[1..n -> S] : n \in 0..MaxDetails}

\* Detail lists of update payloads: one entry, an "e" entry followed by the
\* "p" entry, and the same type twice
UpdateLists ==
    {<<it>> : it \in UpdateItems}
    \cup {<<Item(<<"e">>, v), Item(<<"p">>, <<"x">>)>> : v \in Values}
    \cup {<<Item(<<"e">>, <<"x">>), Item(<<"e">>, <<"y">>)>>}

\* Patches of the entity fields, patches of the details, and both at once
UpdatePayloads ==
    [display_name : Opt(Names), entity_type : Opt(EntityTypes), details : {<<>>}]
    \cup [display_name : {None}, entity_type : {None}, details : UpdateLists]
    \cup [display_name : {Some(<<"b">>)}, entity_type : {None},
          details : {<<Item(<<"e">>, <<"y">>)>>}]

CreatePayloads == [display_name : {<<"a">>}, entity_type : {<<"P">>},
                   valid_from : {Null, MaxTime},
                   details : Lists(CreateItems) \cup
                       {<<Item(<<"e">>, <<"x">>) @@ [valid_from |-> MaxTime]>>}]

\* Payloads of the write paths that keep an audit trail
AuditCreatePayloads ==
    {p \in CreatePayloads : p.valid_from = Null /\ Len(p.details) <= 1}

AuditUpdatePayloads ==
    [display_name : {None, Some(<<"b">>), Some(<<" ", "A">>)},
     entity_type : {None}, details : {<<>>}]
    \cup [display_name : {None}, entity_type : {None},
          details : {<<Item(<<"e">>, <<"x">>)>>}]

EntityServiceData ==
    [display_name : {None, Some(<<"a">>), Some(<<"b">>)},
     entity_type : {Some(<<"P">>)},
     details : {<<>>, <<Item(<<"e">>, <<"x">>)>>}]

\* new_data of AuditService.compare_entity_data: a dict with some of the keys
\* display_name, entity_type_id, entity_type
CompareValues(key) ==
    IF key = "display_name" THEN {<<"a">>, <<"A", "c">>}
    ELSE {<<"P">>, <<"I">>}

\* update_data of SCD2Service.update_entity: a dict with some of the business
\* fields of the model class, one of them also with a system field
Dicts(keys, Val(_)) ==
    UNION {{f \in [ks -> UNION {Val(k) : k \in ks}] : \A k \in ks : f[k] \in Val(k)} :
           ks \in SUBSET keys}

EntityUpdateValues(key) ==
    IF key = "display_name" THEN {<<"b">>} ELSE {<<"I">>}

DetailUpdateValues(key) ==
    IF key = "detail_value" THEN {<<"y">>} ELSE {<<"e">>, <<"p">>}

CompareData == Dicts({"display_name", "entity_type_id", "entity_type"}, CompareValues)

SCD2UpdateData(model_class) ==
    IF model_class = "Entity"
    THEN Dicts({"display_name", "entity_type"}, EntityUpdateValues)
         \cup {[k \in {"display_name", "valid_from"} |->
                    IF k = "display_name" THEN <<"b">> ELSE MaxTime]}
    ELSE Dicts({"detail_value", "detail_type_id"}, DetailUpdateValues)
         \cup {[k \in {"detail_value", "valid_from"} |->
                    IF k = "detail_value" THEN <<"y">> ELSE MaxTime]}

\* The identifier update_entity is given: an entity_uid, or for EntityDetail
\* the id of the Entity row the detail references
SCD2Keys(model_class) ==
    IF model_class = "Entity" THEN Uids ELSE 1..MaxEntityRows

\* ----------------------------------------------------------------- actions
NoCall == [op |-> "none", uid |-> Null, status |-> "none", changed |-> FALSE,
           row |-> Null]

\* Database connections, each serving one request at a time
Connections == {"c1", "c2"}

\* A connection with no update_entity_idempotent call in progress
Idle == [pc |-> "idle", uid |-> Null, payload |-> None, T |-> Null,
         cur |-> Null, st |-> Txn(<<>>, <<>>)]

Init ==
    /\ entities = <<>>
    /\ details = <<>>
    /\ audit = <<>>
    /\ now = 1
    /\ ret = NoCall
    /\ txn = [p \in Connections |-> Idle]

\* timezone.now() advances between calls
Tick ==
    /\ now < MaxTime
    /\ now' = now + 1
    /\ UNCHANGED <<entities, details, audit, ret, txn>>

\* Room in the bounded tables for the rows one call can add
Room(e, d) == Len(e) < MaxEntityRows /\ Len(d) + MaxDetails <= MaxDetailRows

Create ==
    /\ Room(entities, details)
    /\ new_uid(entities) <= MaxUid
    /\ \E payload \in CreatePayloads :
        \E r \in {create_entity(entities, details, payload, now)} :
            /\ entities' = r.e
            /\ details' = r.d
            /\ ret' = [op |-> "create", uid |-> new_uid(entities),
                       status |-> r.status, changed |-> r.status = "ok",
                       row |-> r.row]
            /\ UNCHANGED <<audit, now, txn>>

Update ==
    /\ Room(entities, details)
    /\ \E uid \in Uids, payload \in UpdatePayloads, change_ts \in OptTime :
        \E r \in {update_entity_idempotent(entities, details, uid, payload,
                                             change_ts, now)} :
            /\ entities' = r.e
            /\ details' = r.d
            /\ ret' = [op |-> "update", uid |-> uid, status |-> r.status,
                       changed |-> r.changed, row |-> r.row]
            /\ UNCHANGED <<audit, now, txn>>

Next == Tick \/ Create \/ Update

Spec == Init /\ [][Next]_vars

\* -------------------------------------------- write paths with their audit
LoggedCreate ==
    /\ Room(entities, details)
    /\ new_uid(entities) <= MaxUid
    /\ \E payload \in AuditCreatePayloads, log_raises \in BOOLEAN :
        \E r \in {create_entity_logged(entities, details, payload, now,
                                       log_raises)} :
            /\ entities' = r.e
            /\ details' = r.d
            /\ ret' = [op |-> "create", uid |-> new_uid(entities),
                       status |-> r.status, changed |-> r.status = "ok",
                       row |-> r.row]
            /\ UNCHANGED <<audit, now, txn>>

LoggedUpdate ==
    /\ Room(entities, details)
    /\ \E uid \in Uids, payload \in AuditUpdatePayloads, log_raises \in BOOLEAN :
        \E r \in {update_entity_idempotent_logged(entities, details, uid,
                                                   payload, Null, now, log_raises)} :
            /\ entities' = r.e
            /\ details' = r.d
            /\ ret' = [op |-> "update", uid |-> uid, status |-> r.status,
                       changed |-> r.changed, row |-> r.row]
            /\ UNCHANGED <<audit, now, txn>>

EntityCreate ==
    /\ Room(entities, details)
    /\ new_uid(entities) <= MaxUid
    /\ \E data \in EntityServiceData, user \in Users :
        \E r \in {EntityService_create(entities, details, audit, data, user, now)} :
            /\ entities' = r.e
            /\ details' = r.d
            /\ audit' = r.a
            /\ ret' = [op |-> "EntityService.create", uid |-> new_uid(entities),
                       status |-> r.status, changed |-> r.changed, row |-> r.row]
            /\ UNCHANGED <<now, txn>>

EntityUpdate ==
    /\ Room(entities, details)
    /\ \E uid \in Uids, data \in EntityServiceData, user \in Users :
        \E r \in {EntityService_update(entities, details, audit, uid, data,
                                       user, now)} :
            /\ entities' = r.e
            /\ details' = r.d
            /\ audit' = r.a
            /\ ret' = [op |-> "EntityService.update", uid |-> uid,
                       status |-> r.status, changed |-> r.changed, row |-> r.row,
                       data |-> data]
            /\ UNCHANGED <<now, txn>>

NextAudit == Tick \/ LoggedCreate \/ LoggedUpdate \/ EntityCreate \/ EntityUpdate

SpecAudit == Init /\ [][NextAudit]_vars

\* ------------------------------------- update_entity_idempotent, step by step
\* Two requests on their own connections.  Queries read the committed tables
\* (READ COMMITTED); the first write of a transaction waits for the
\* transaction that holds uncommitted writes, so the write phases take turns.
ConcCreatePayloads ==
    {p \in CreatePayloads : p.valid_from = Null /\ p.details \in
        {<<>>, <<Item(<<"e">>, <<"x">>) @@ [valid_from |-> Null]>>}}

ConcUpdatePayloads ==
    [display_name : {Some(<<"b">>), Some(<<" ", "A">>)}, entity_type : {None},
     details : {<<>>}]
    \cup [display_name : {None}, entity_type : {Some(<<"I">>)}, details : {<<>>}]
    \cup [display_name : {None}, entity_type : {None},
          details : {<<Item(<<"e">>, <<"y">>)>>}]

\* No transaction holds uncommitted writes
WriteLockFree == \A q \in Connections : txn[q].pc \notin {"open", "details"}

\* @transaction.atomic: what the other connections see of the tables while
\* the block runs (done = FALSE) and once it has exited normally (done = TRUE)
atomic_autocommit(committed, st, done) == st

atomic(committed, st, done) == IF done THEN st ELSE committed

\* GetService.get_entity: the current version of entity_uid, None without one
get_entity(e, entity_uid) ==
    LET found == current_entity_ids(e, entity_uid)
    IN  IF found = {} THEN Null ELSE CHOOSE i \in found : TRUE

\* SnapshotAPIView.get: the current version of entity_uid with
\* entity.details.filter(is_current=True), or 404
SnapshotAPIView_get(e, d, entity_uid) ==
    LET entity == get_entity(e, entity_uid)
    IN  IF entity = Null
        THEN [status |-> 404, entity |-> Null, details |-> {}]
        ELSE [status |-> 200, entity |-> entity,
              details |-> {k \in DOMAIN d : d[k].entity = entity
                                            /\ d[k].is_current}]

\* EntityRWSerializer.get_details:
\* EntityDetail.objects.filter(entity=obj, is_current=True)
get_details(d, obj) ==
    {k \in DOMAIN d : d[k].entity = obj /\ d[k].is_current}

\* CreateService.create_entity, a transaction of its own
ConcCreate ==
    /\ WriteLockFree
    /\ Room(entities, details)
    /\ new_uid(entities) <= MaxUid
    /\ \E payload \in ConcCreatePayloads :
        \E r \in {create_entity(entities, details, payload, now)} :
            /\ entities' = r.e
            /\ details' = r.d
            /\ ret' = [op |-> "create", uid |-> new_uid(entities),
                       status |-> r.status, changed |-> r.status = "ok",
                       row |-> r.row]
            /\ UNCHANGED <<audit, now, txn>>

\* Lines 103-147: look the current version up, fix the transition instant and
\* decide whether anything changes
TxBegin(p) ==
    /\ txn[p].pc = "idle"
    /\ Room(entities, details)
    /\ \E uid \in Uids, payload \in ConcUpdatePayloads, change_ts \in OptTime :
        LET found == current_entity_ids(entities, uid)
            new_valid_from == IF change_ts # Null THEN parse_datetime(change_ts)
                              ELSE now
        IN  IF found = {}
            THEN /\ ret' = [op |-> "update", uid |-> uid, status |-> "not_found",
                            changed |-> FALSE, row |-> Null]
                 /\ UNCHANGED txn
            ELSE
            LET cur == CHOOSE i \in found : TRUE
            IN  IF ~is_entity_change_needed(entities[cur], payload)
                   /\ ~details_need_update(details, cur, payload.details)
                THEN /\ ret' = [op |-> "update", uid |-> uid, status |-> "ok",
                                changed |-> FALSE, row |-> cur]
                     /\ UNCHANGED txn
                ELSE /\ txn' = [txn EXCEPT ![p] =
                            [pc |-> "close", uid |-> uid, payload |-> payload,
                             T |-> new_valid_from, cur |-> cur,
                             st |-> Txn(<<>>, <<>>)]]
                     /\ UNCHANGED ret
    /\ UNCHANGED <<entities, details, audit, now>>

\* A statement raised: the atomic block rolls back and the call fails
TxAbort(p) ==
    /\ txn' = [txn EXCEPT ![p] = Idle]
    /\ ret' = [op |-> "update", uid |-> txn[p].uid, status |-> "error",
               changed |-> FALSE, row |-> txn[p].cur]

\* What the other connections see after a step of the block
TxPublish(st, done) ==
    /\ entities' = atomic(Txn(entities, details), st, done).e
    /\ details' = atomic(Txn(entities, details), st, done).d

\* Line 150: _close_current_entity
TxClose(p) ==
    /\ txn[p].pc = "close"
    /\ WriteLockFree
    /\ \E st \in {close_current_entity(Txn(entities, details), txn[p].cur,
                                       txn[p].T)} :
        IF st.ok
        THEN /\ txn' = [txn EXCEPT ![p].pc = "open", ![p].st = st]
             /\ TxPublish(st, FALSE)
             /\ UNCHANGED ret
        ELSE /\ TxAbort(p)
             /\ UNCHANGED <<entities, details>>
    /\ UNCHANGED <<audit, now>>

\* Line 151: _create_new_entity
TxOpen(p) ==
    /\ txn[p].pc = "open"
    /\ \E st \in {create_new_entity(txn[p].st, txn[p].cur, txn[p].payload,
                                    txn[p].T)} :
        IF st.ok
        THEN /\ txn' = [txn EXCEPT ![p].pc = "details", ![p].st = st]
             /\ TxPublish(st, FALSE)
             /\ UNCHANGED ret
        ELSE /\ TxAbort(p)
             /\ UNCHANGED <<entities, details>>
    /\ UNCHANGED <<audit, now>>

\* Lines 152-169: _update_details, then the block exits and commits
TxCommit(p) ==
    /\ txn[p].pc = "details"
    /\ \E st \in {update_details(txn[p].st, txn[p].cur, Len(txn[p].st.e),
                                 txn[p].payload.details, txn[p].T)} :
        IF st.ok
        THEN /\ txn' = [txn EXCEPT ![p] = Idle]
             /\ TxPublish(st, TRUE)
             /\ ret' = [op |-> "update", uid |-> txn[p].uid, status |-> "ok",
                        changed |-> TRUE, row |-> Len(st.e)]
        ELSE /\ TxAbort(p)
             /\ UNCHANGED <<entities, details>>
    /\ UNCHANGED <<audit, now>>

NextConcurrent ==
    \/ Tick
    \/ ConcCreate
    \/ \E p \in Connections : TxBegin(p)
    \/ \E p \in Connections : TxClose(p)
    \/ \E p \in Connections : TxOpen(p)
    \/ \E p \in Connections : TxCommit(p)

SpecConcurrent == Init /\ [][NextConcurrent]_vars

\* ------------------------------------------------ SCD2Service.update_entity
\* One call of SCD2Service.update_entity; the clock may advance between its
\* two readings of timezone.now()
SCD2Update ==
    /\ Room(entities, details)
    /\ \E model_class \in ModelClasses, clock2 \in now..MaxTime :
        \E entity_uid \in SCD2Keys(model_class),
           update_data \in SCD2UpdateData(model_class) :
            \E r \in {SCD2Service_update_entity(entities, details, model_class,
                            entity_uid, update_data, now, clock2)} :
                /\ entities' = r.e
                /\ details' = r.d
                /\ now' = clock2
                /\ ret' = [op |-> "SCD2Service.update_entity", uid |-> entity_uid,
                           status |-> r.status, changed |-> r.status = "ok",
                           row |-> r.row, cur |-> r.cur, model |-> model_class]
                /\ UNCHANGED <<audit, txn>>

NextSCD2 == Tick \/ ConcCreate \/ SCD2Update

SpecSCD2 == Init /\ [][NextSCD2]_vars

\* ------------------------------------------------------- claims: vocabulary
\* The calls update_entity_idempotent can be given in a state
Calls == Uids \X UpdatePayloads \X OptTime

\* The outcome of one such call in the present state (a set of one record)
Outcome(c) ==
    {update_entity_idempotent(entities, details, c[1], c[2], c[3], now)}

\* The instant the call takes as its transition time
Instant(c) == IF c[3] # Null THEN c[3] ELSE now

\* Points of time shared by the half-open intervals of two versions
Overlap(r1, r2) ==
    \E t \in 1..MaxTime :
        /\ r1.valid_from <= t /\ (r1.valid_to = Null \/ t < r1.valid_to)
        /\ r2.valid_from <= t /\ (r2.valid_to = Null \/ t < r2.valid_to)

\* The logical key of a detail row: the entity_uid of the version it references
UidOf(k) == entities[details[k].entity].entity_uid

\* The current details of a logical key (entity_uid, detail_type)
CurrentDetails(uid, dt) ==
    {k \in DOMAIN details : UidOf(k) = uid /\ details[k].detail_type = dt
                            /\ details[k].is_current}

\* The payload's entity fields, merged over the row, equal the row's after
\* trimming and lower-casing
FieldsUnchanged(row, payload) ==
    /\ normalize_string(get(payload.display_name, row.display_name))
          = normalize_string(row.display_name)
    /\ get(payload.entity_type, row.entity_type) = row.entity_type

\* Nothing was written: the tables of the outcome are the present ones
NothingWritten(r) == r.e = entities /\ r.d = details

\* ------------------------------------------------------------------ claims
\* C1: every entity_uid has at most one Entity row with is_current = true and
\* valid_to = null, after any sequence of create and update calls.
C1_OneCurrentEntity ==
    \A uid \in Uids :
        Cardinality({i \in DOMAIN entities :
            /\ entities[i].entity_uid = uid
            /\ entities[i].is_current
            /\ entities[i].valid_to = Null}) <= 1

\* An update has re-versioned an entity: a closed and a current version
C1_Witness ==
    /\ ret.op = "update" /\ ret.changed
    /\ \E i, j \in DOMAIN entities :
        /\ entities[i].entity_uid = entities[j].entity_uid
        /\ ~entities[i].is_current /\ entities[i].valid_to # Null
        /\ entities[j].is_current /\ entities[j].valid_to = Null

\* C2: every (entity_uid, detail_type) has at most one EntityDetail row with
\* is_current = true and valid_to = null, also when a patch that omits a
\* detail type is followed by one that supplies it.
C2_OneCurrentDetail ==
    \A uid \in Uids, dt \in DetailTypes :
        Cardinality({k \in CurrentDetails(uid, dt) :
            details[k].valid_to = Null}) <= 1

\* C3: the intervals [valid_from, valid_to) of the Entity versions of one
\* entity_uid are pairwise non-overlapping, whatever change_ts the callers pass.
C3_EntityIntervalsDisjoint ==
    \A i, j \in DOMAIN entities :
        (i < j /\ entities[i].entity_uid = entities[j].entity_uid)
            => ~Overlap(entities[i], entities[j])

\* Three versions of one entity_uid, each ending where the next begins
C3_Witness ==
    /\ ret.op = "update" /\ ret.changed
    /\ \E i, j, k \in DOMAIN entities :
        /\ entities[i].entity_uid = entities[j].entity_uid
        /\ entities[j].entity_uid = entities[k].entity_uid
        /\ entities[i].valid_from < entities[j].valid_from
        /\ entities[i].valid_to = entities[j].valid_from
        /\ entities[j].valid_to = entities[k].valid_from
        /\ entities[k].valid_to = Null

\* C4: the intervals [valid_from, valid_to) of the EntityDetail versions of one
\* (entity_uid, detail_type) are pairwise non-overlapping.
C4_DetailIntervalsDisjoint ==
    \A k, l \in DOMAIN details :
        (k < l /\ UidOf(k) = UidOf(l)
               /\ details[k].detail_type = details[l].detail_type)
            => ~Overlap(details[k], details[l])

\* The current version of the entity a call addresses (a set of at most one)
Current(c) == current_entity_ids(entities, c[1])

\* Every detail the payload supplies has the given relation to a current
\* detail of its type
SuppliedDetailsMatch(c, Same(_, _)) ==
    \A n \in DOMAIN c[2].details :
        \E k \in CurrentDetails(c[1], c[2].details[n].detail_type) :
            Same(details[k].detail_value, c[2].details[n].detail_value)

RawEqual(v, w) == v = w

NormEqual(v, w) == normalize_string(v) = normalize_string(w)

\* C5: a call that succeeds and changes display_name or entity_type (after
\* normalization) sets valid_to = T and is_current = false on the previously
\* current version and adds exactly one new version with the same entity_uid,
\* valid_from = T, valid_to = null, is_current = true and the payload fields
\* merged over the previous values; no other Entity row is touched.
C5_CloseAndOpen ==
    Room(entities, details) =>
    \A c \in Calls : \A r \in Outcome(c) :
        (r.status = "ok" /\ ~FieldsUnchanged(entities[r.cur], c[2])) =>
            LET old == entities[r.cur]
                new == r.e[Len(r.e)]
            IN  /\ r.changed
                /\ Len(r.e) = Len(entities) + 1
                /\ r.row = Len(r.e)
                /\ r.e[r.cur] = [old EXCEPT !.valid_to = Instant(c),
                                            !.is_current = FALSE]
                /\ \A i \in DOMAIN entities \ {r.cur} : r.e[i] = entities[i]
                /\ new.entity_uid = c[1]
                /\ new.valid_from = Instant(c)
                /\ new.valid_to = Null
                /\ new.is_current
                /\ new.display_name = get(c[2].display_name, old.display_name)
                /\ new.entity_type = get(c[2].entity_type, old.entity_type)

\* An update has replaced a version by one with another name or type
C5_Witness ==
    /\ ret.op = "update" /\ ret.status = "ok" /\ ret.changed
    /\ \E i \in DOMAIN entities :
        /\ entities[i].entity_uid = ret.uid
        /\ ~entities[i].is_current
        /\ entities[i].valid_from < entities[i].valid_to
        /\ entities[i].valid_to = entities[ret.row].valid_from
        /\ \/ normalize_string(entities[i].display_name)
                # normalize_string(entities[ret.row].display_name)
           \/ entities[i].entity_type # entities[ret.row].entity_type

\* C6: a payload without details whose display_name and entity_type equal the
\* current version's after trimming and lower-casing returns (current version,
\* changed = false) and writes no row, at every timestamp.
C6_EntityNoop ==
    Room(entities, details) =>
    \A c \in Calls : \A cur \in Current(c) : \A r \in Outcome(c) :
        (c[2].details = <<>> /\ FieldsUnchanged(entities[cur], c[2])) =>
            /\ r.status = "ok"
            /\ ~r.changed
            /\ r.row = cur
            /\ NothingWritten(r)

\* A no-op update has returned; the same entity takes a payload that differs
\* in case and whitespace only, at an instant before its valid_from, as a no-op
C6_Witness ==
    /\ ret.op = "update" /\ ret.status = "ok" /\ ~ret.changed
    /\ entities[ret.row].display_name = <<"a">>
    /\ entities[ret.row].valid_from > 1
    /\ \A r \in Outcome(<<ret.uid,
                [display_name |-> Some(<<" ", "A">>),
                 entity_type |-> Some(entities[ret.row].entity_type),
                 details |-> <<>>], 1>>) :
            ~r.changed /\ r.row = ret.row /\ NothingWritten(r)

\* C7: with unchanged entity fields and every supplied detail equal in value to
\* the current detail of its type, the call returns changed = false and adds
\* no Entity version and no EntityDetail version.
C7_DetailNoop ==
    Room(entities, details) =>
    \A c \in Calls : \A cur \in Current(c) : \A r \in Outcome(c) :
        (/\ c[2].details # <<>>
         /\ FieldsUnchanged(entities[cur], c[2])
         /\ SuppliedDetailsMatch(c, RawEqual)) =>
            /\ ~r.changed
            /\ Len(r.e) = Len(entities)
            /\ Len(r.d) = Len(details)

\* C8: a display_name or supplied detail_value that differs from the current
\* value only in letter case or surrounding whitespace is treated as
\* unchanged: changed = false and the numbers of versions stay the same.
C8_CaseAndWhitespaceIgnored ==
    Room(entities, details) =>
    \A c \in Calls : \A cur \in Current(c) : \A r \in Outcome(c) :
        (/\ FieldsUnchanged(entities[cur], c[2])
         /\ SuppliedDetailsMatch(c, NormEqual)
         /\ \/ get(c[2].display_name, entities[cur].display_name)
                  # entities[cur].display_name
            \/ ~SuppliedDetailsMatch(c, RawEqual)) =>
            /\ r.status = "ok"
            /\ ~r.changed
            /\ Len(r.e) = Len(entities)
            /\ Len(r.d) = Len(details)

\* C9: a call that succeeded, repeated with the same payload and the same
\* change_ts, returns changed = false and leaves the store as the first call
\* left it, for payloads with and without details.
C9_ReplayIsNoop ==
    Room(entities, details) =>
    \A c \in Calls : \A r1 \in Outcome(c) :
        r1.status = "ok" =>
            \A r2 \in {update_entity_idempotent(r1.e, r1.d, c[1], c[2], c[3], now)} :
                /\ r2.status = "ok"
                /\ ~r2.changed
                /\ r2.e = r1.e
                /\ r2.d = r1.d

\* The payload would change the record: an entity field or a supplied detail
\* differs, after normalization, from the current value
WouldChange(c, cur) ==
    ~FieldsUnchanged(entities[cur], c[2]) \/ ~SuppliedDetailsMatch(c, NormEqual)

\* C10: a call with a change_ts earlier than or equal to the current version's
\* valid_from and a payload that would change the record fails and writes
\* nothing.
C10_OutOfOrderRejected ==
    Room(entities, details) =>
    \A c \in Calls : \A cur \in Current(c) : \A r \in Outcome(c) :
        (/\ c[3] # Null
         /\ c[3] <= entities[cur].valid_from
         /\ WouldChange(c, cur)) =>
            /\ r.status = "error"
            /\ NothingWritten(r)

\* C11: every Entity and EntityDetail row has a non-null valid_from and, when
\* valid_to is non-null, valid_to is strictly greater than valid_from.
C11_IntervalsWellFormed ==
    /\ \A i \in DOMAIN entities :
        /\ entities[i].valid_from # Null
        /\ entities[i].valid_to # Null
              => entities[i].valid_to > entities[i].valid_from
    /\ \A k \in DOMAIN details :
        /\ details[k].valid_from # Null
        /\ details[k].valid_to # Null
              => details[k].valid_to > details[k].valid_from

\* The AuditLog rows written for a table
AuditRows(table_name) ==
    {n \in DOMAIN audit : audit[n].table_name = table_name}

\* C12: on every write path each committed insertion or close-and-reopen of an
\* Entity or EntityDetail version has added exactly one AuditLog row, and a
\* no-op update none: the audit_log rows of a table are as many as the
\* versions inserted into it.
C12_OneAuditRowPerChange ==
    /\ Cardinality(AuditRows("entity")) = Len(entities)
    /\ Cardinality(AuditRows("entity_detail")) = Len(details)

\* C13: when recording the audit entry fails, the create or update fails and
\* none of its Entity and EntityDetail rows persist.
C13_AuditFailureAborts ==
    Room(entities, details) =>
        /\ \A payload \in AuditCreatePayloads :
            \A r \in {create_entity_logged(entities, details, payload, now, TRUE)} :
                r.status = "error" /\ NothingWritten(r)
        /\ \A uid \in Uids, payload \in AuditUpdatePayloads :
            \A r \in {update_entity_idempotent_logged(entities, details, uid,
                                                       payload, Null, now, TRUE)} :
                (r.status # "not_found" /\ WouldChange(<<uid, payload, Null>>, r.cur))
                    => (r.status = "error" /\ NothingWritten(r))
        /\ \A data \in EntityServiceData :
            \A r \in {EntityService_create(entities, details, audit, data, Null, now)} :
                r.status = "error" /\ NothingWritten(r) /\ r.a = audit

\* The step in which the call on connection p commits
Commits(p) ==
    txn[p].pc = "details" /\ txn'[p].pc = "idle" /\ entities' # entities

\* C14: of two concurrent update_entity_idempotent calls on one entity_uid
\* that both change the entity at most one commits: a call commits only while
\* the version it read as current still is current; the valid_to of a closed
\* version is never overwritten, and no committed state holds a second
\* current version or overlapping intervals.
C14_ConcurrentUpdatesSerialized ==
    [][/\ \A p \in Connections :
            Commits(p) => entities[txn[p].cur].is_current
       /\ \A i \in DOMAIN entities :
            entities[i].valid_to # Null =>
                (i \in DOMAIN entities' /\ entities'[i] = entities[i])
       /\ \A i, j \in DOMAIN entities' :
            (i < j /\ entities'[i].entity_uid = entities'[j].entity_uid) =>
                /\ ~(entities'[i].is_current /\ entities'[j].is_current)
                /\ ~Overlap(entities'[i], entities'[j])
      ]_vars

\* A call has failed on a version that a concurrent call closed after the
\* failed call had read it as current
C14_Witness ==
    /\ ret.op = "update" /\ ret.status = "error" /\ ret.row # Null
    /\ ~entities[ret.row].is_current
    /\ entities[ret.row].valid_to # Null
    /\ get_entity(entities, ret.uid) # Null

\* C15: in every state the readers can see, each entity_uid that has a version
\* has exactly one current version, so GetService.get_entity finds it.
C15_NoHalfCommittedState ==
    \A uid \in Uids :
        (\E i \in DOMAIN entities : entities[i].entity_uid = uid) =>
            /\ Cardinality(current_entity_ids(entities, uid)) = 1
            /\ get_entity(entities, uid) # Null

\* A call has closed the current version and not yet opened the new one,
\* while the readers still find the current version
C15_Witness ==
    \E p \in Connections :
        /\ txn[p].pc = "open"
        /\ current_entity_ids(txn[p].st.e, txn[p].uid) = {}
        /\ get_entity(entities, txn[p].uid) # Null

\* The interval [valid_from, valid_to) of a version contains the instant t
Contains(row, t) ==
    \E u \in Time : u = t /\ ~(u < row.valid_from)
                    /\ (row.valid_to # Null => u < row.valid_to)

\* The versions of an entity_uid
Versions(uid) == {i \in DOMAIN entities : entities[i].entity_uid = uid}

\* C16: get_entity_as_of(uid, t) returns a version of uid whose interval
\* contains t, and none exactly when no version of uid contains t (so none
\* before the first valid_from); at the boundary shared by two adjacent
\* versions it returns the one that begins there.
C16_AsOfReturnsContainingVersion ==
    \A uid \in Uids, t \in Time :
        \A r \in get_entity_as_of(entities, details, uid, t) :
            /\ r.entity = Null
                    <=> ~\E i \in Versions(uid) : Contains(entities[i], t)
            /\ r.entity # Null =>
                /\ r.entity \in Versions(uid)
                /\ entities[r.entity].valid_from <= t
                /\ (entities[r.entity].valid_to = Null
                        \/ t < entities[r.entity].valid_to)
                /\ \A i \in Versions(uid) :
                    (entities[i].valid_from < t /\ entities[i].valid_to = t)
                        => (r.entity # i /\ entities[r.entity].valid_from = t)
            /\ (\A i \in Versions(uid) : t < entities[i].valid_from)
                    => r.entity = Null

\* An update has left two adjacent versions; at their shared boundary the
\* query returns the later one, and before the first valid_from none
C16_Witness ==
    /\ ret.op = "update" /\ ret.changed
    /\ \E i, j \in Versions(ret.uid) :
        /\ entities[i].valid_from > 1
        /\ entities[i].valid_from < entities[i].valid_to
        /\ entities[i].valid_to = entities[j].valid_from
        /\ \A r \in get_entity_as_of(entities, details, ret.uid,
                                     entities[j].valid_from) :
                r.entity = j
        /\ get_entity_as_of(entities, details, ret.uid, 1) = {NoSnapshot}

\* The detail versions of an entity_uid whose interval contains t
ExpectedDetails(uid, t) ==
    {k \in DOMAIN details : UidOf(k) = uid /\ Contains(details[k], t)}

\* C17: in every as-of snapshot operation the details listed for an entity at
\* instant t are exactly the EntityDetail versions of its entity_uid whose
\* interval contains t, whichever Entity version row they reference.
C17_SnapshotListsDetailsOfUid ==
    \A t \in Time :
        \A s \in AsOfService_get_entities_as_of(entities, details, t)
                 \cup AsOfService_get_queryset(entities, details, [as_of |-> t])
                 \cup ListService_get_entities_as_of(entities, details, t) :
            s.details = ExpectedDetails(entities[s.entity].entity_uid, t)

\* The detail types a payload mentions
Mentioned(payload) ==
    {payload.details[n].detail_type : n \in DOMAIN payload.details}

\* C18: a call leaves every current EntityDetail of the entity whose
\* detail_type the payload does not mention as it was (valid_from, valid_to,
\* is_current, detail_value, hashdiff), also when the entity is re-versioned.
C18_UnmentionedDetailsUntouched ==
    Room(entities, details) =>
    \A c \in Calls : \A r \in Outcome(c) :
        \A k \in DOMAIN details :
            (/\ UidOf(k) = c[1]
             /\ details[k].is_current
             /\ details[k].detail_type \notin Mentioned(c[2])) =>
                /\ k \in DOMAIN r.d
                /\ r.d[k].valid_from = details[k].valid_from
                /\ r.d[k].valid_to = details[k].valid_to
                /\ r.d[k].is_current = details[k].is_current
                /\ r.d[k].detail_value = details[k].detail_value
                /\ r.d[k].hashdiff = details[k].hashdiff

\* An update has re-versioned the entity and changed one detail type while a
\* current detail of another type, not in its payload, stays open on the
\* version it was created with
C18_Witness ==
    /\ ret.op = "update" /\ ret.status = "ok" /\ ret.changed
    /\ \E k, l \in DOMAIN details :
        /\ UidOf(k) = ret.uid /\ UidOf(l) = ret.uid
        /\ details[l].entity = ret.row
        /\ details[k].detail_type # details[l].detail_type
        /\ details[k].is_current /\ details[k].valid_to = Null
        /\ ~entities[details[k].entity].is_current

\* The versions of a detail type of an entity_uid in tables e, d
DetailVersions(e, d, uid, dt) ==
    {k \in DOMAIN d : e[d[k].entity].entity_uid = uid /\ d[k].detail_type = dt}

\* C19: when a payload changes one detail and supplies another detail with
\* its current value, the call adds no version of the unchanged detail: its
\* versions are the ones it had, and its current version is untouched.
C19_UnchangedDetailNotReversioned ==
    Room(entities, details) =>
    \A c \in Calls : \A r \in Outcome(c) :
        \A n, m \in DOMAIN c[2].details :
            LET same == c[2].details[n]
                other == c[2].details[m]
                kept == {k \in CurrentDetails(c[1], same.detail_type) :
                            details[k].detail_value = same.detail_value}
            IN  (/\ r.status = "ok"
                 /\ other.detail_type # same.detail_type
                 /\ kept # {}
                 /\ \E k \in CurrentDetails(c[1], other.detail_type) :
                        normalize_string(details[k].detail_value)
                            # normalize_string(other.detail_value)) =>
                    /\ DetailVersions(r.e, r.d, c[1], same.detail_type)
                         = DetailVersions(entities, details, c[1], same.detail_type)
                    /\ \A k \in kept : r.d[k] = details[k]

\* C20: a call that returns reports changed = true if and only if it wrote an
\* Entity or EntityDetail row; with changed = false the stored rows and all
\* their fields are as before the call (a call that raises writes nothing).
C20_ChangedIffWritten ==
    Room(entities, details) =>
    \A c \in Calls : \A r \in Outcome(c) :
        /\ r.status = "ok" => (r.changed <=> ~NothingWritten(r))
        /\ r.changed => (Len(r.e) > Len(entities) \/ Len(r.d) > Len(details))
        /\ ~r.changed => NothingWritten(r)

\* An update that changed a detail only has returned changed = true, with the
\* entity re-versioned under the same name and type and a new detail version
C20_Witness ==
    /\ ret.op = "update" /\ ret.status = "ok" /\ ret.changed
    /\ \E i \in Versions(ret.uid) :
        /\ ~entities[i].is_current
        /\ entities[i].valid_to = entities[ret.row].valid_from
        /\ entities[i].hashdiff = entities[ret.row].hashdiff
    /\ \E k \in DOMAIN details :
        details[k].entity = ret.row /\ details[k].is_current

\* ---------------------------------------------------------- claims: diff
\* The calls that change nothing but the display_name: no entity_type, no
\* details
RenameCalls == {c \in Calls : /\ c[2].display_name # None
                               /\ c[2].entity_type = None
                               /\ c[2].details = <<>>}

\* No EntityDetail version of uid begins or ends in (a, b]
DetailsQuiet(e, d, uid, a, b) ==
    \A k \in DOMAIN d :
        e[d[k].entity].entity_uid = uid =>
            /\ ~(a < d[k].valid_from /\ d[k].valid_from <= b)
            /\ ~(d[k].valid_to # Null /\ a < d[k].valid_to /\ d[k].valid_to <= b)

\* The entries of entity_uid in a change list of the snapshot comparison
EntriesOf(changes, uid) == {ch \in changes : ch.entity_uid = uid}

\* The changes of entity_uid in a grouped diff (empty when it has no group)
GroupOf(result, uid) == UNION {g.changes : g \in {g \in result : g.entity_uid = uid}}

\* C21: when between two instants a < b the only change to an entity is its
\* display_name (an update without details at an instant in (a, b]),
\* get_entities_diff(a, b) holds for that entity exactly one field change, on
\* display_name, from the old value to the new one, and no detail change.
C21_RenameIsOneFieldChange ==
    Room(entities, details) =>
        \A c \in RenameCalls : \A r \in Outcome(c) :
            (r.status = "ok" /\ r.changed) =>
                \A a \in Time, b \in Time :
                    (/\ a < b /\ a < r.T /\ r.T <= b
                     /\ valid_at(r.e[r.cur], a)
                     /\ DetailsQuiet(r.e, r.d, c[1], a, b)) =>
                        /\ \A o \in get_entities_diff(r.e, r.d, a, b) :
                              /\ o.status = "ok"
                              /\ GroupOf(o.result, c[1]) =
                                    {[type |-> "field",
                                      field |-> <<"display_name">>,
                                      from |-> Some(r.e[r.cur].display_name),
                                      to |-> Some(r.e[r.row].display_name)]}
                        /\ \A chs \in get_entities_diff_HEAD(r.e, r.d, a, b) :
                              EntriesOf(chs, c[1]) =
                                  {Change(c[1], "field_changed",
                                          <<"display_name">>,
                                          Some(r.e[r.cur].display_name),
                                          Some(r.e[r.row].display_name))}

\* A rename has just been made at an instant in (a, b], the entity has a
\* detail at a and at b, and the diff of a and b holds the one field change
C21_Witness ==
    /\ ret.op = "update" /\ ret.status = "ok" /\ ret.changed
    /\ \E i \in DOMAIN entities, a \in Time, b \in Time :
        /\ a < b
        /\ entities[i].entity_uid = ret.uid
        /\ entities[i].valid_to = entities[ret.row].valid_from
        /\ entities[i].display_name # entities[ret.row].display_name
        /\ entities[i].entity_type = entities[ret.row].entity_type
        /\ valid_at(entities[i], a) /\ valid_at(entities[ret.row], b)
        /\ DetailsQuiet(entities, details, ret.uid, a, b)
        /\ details_of_uid_as_of(entities, details, ret.uid, a) # {}
        /\ \A o \in get_entities_diff(entities, details, a, b) :
              GroupOf(o.result, ret.uid) =
                  {[type |-> "field", field |-> <<"display_name">>,
                    from |-> Some(entities[i].display_name),
                    to |-> Some(entities[ret.row].display_name)]}
        /\ \A chs \in get_entities_diff_HEAD(entities, details, a, b) :
              EntriesOf(chs, ret.uid) =
                  {Change(ret.uid, "field_changed", <<"display_name">>,
                          Some(entities[i].display_name),
                          Some(entities[ret.row].display_name))}

\* The values the as-of snapshot of t lists for detail type c of entity_uid
SnapshotValues(uid, c, t) ==
    {details[k].detail_value :
     k \in {k \in details_of_uid_as_of(entities, details, uid, t) :
            details[k].detail_type = c}}

\* The Entity versions of entity_uid in the as-of snapshot of t
SnapshotRows(uid, t) ==
    {s.entity : s \in {s \in AsOfService_get_entities_as_of(entities, details, t) :
                       entities[s.entity].entity_uid = uid}}

\* The classified difference of the as-of snapshots of from and to, as
\* triples <<entity_uid, kind of change, field>>
Classified(from, to) ==
    UNION {
        LET f == SnapshotRows(uid, from)
            t == SnapshotRows(uid, to)
            field(name, differ) ==
                IF differ THEN {<<uid, "field_changed", <<name>>>>} ELSE {}
            detail(c) ==
                LET fv == SnapshotValues(uid, c, from)
                    tv == SnapshotValues(uid, c, to)
                IN  IF fv = {} /\ tv # {} THEN {<<uid, "detail_added", c>>}
                    ELSE IF fv # {} /\ tv = {} THEN {<<uid, "detail_removed", c>>}
                    ELSE IF fv # tv THEN {<<uid, "detail_changed", c>>}
                    ELSE {}
        IN  IF f = {} /\ t = {} THEN {}
            ELSE IF f = {} THEN {<<uid, "entity_created", <<"entity">>>>}
            ELSE IF t = {} THEN {<<uid, "entity_deleted", <<"entity">>>>}
            ELSE field("display_name",
                       {entities[i].display_name : i \in f}
                           # {entities[i].display_name : i \in t})
                 \cup field("entity_type",
                            {entities[i].entity_type : i \in f}
                                # {entities[i].entity_type : i \in t})
                 \cup UNION {detail(c) : c \in DetailTypes} :
        uid \in Uids}

\* The triples a change list of the snapshot comparison stands for
KindsOfList(changes) ==
    {<<ch.entity_uid, ch.change_type,
       IF ch.change_type \in {"detail_added", "detail_removed", "detail_changed"}
       THEN Tail(ch.field) ELSE ch.field>> : ch \in changes}

\* The triples a grouped diff stands for: a detail entry from None is an
\* added detail, one to None a removed detail
KindsOfGroups(result) ==
    UNION {{<<g.entity_uid,
              IF ch.type = "entity" THEN "entity_" \o ch.action
              ELSE IF ch.type = "field" THEN "field_changed"
              ELSE IF ch.from = None THEN "detail_added"
              ELSE IF ch.to = None THEN "detail_removed"
              ELSE "detail_changed",
              IF ch.type = "entity" THEN <<"entity">> ELSE ch.field>> :
            ch \in g.changes} : g \in result}

\* C22: get_entities_diff(from, to) is exactly the classified difference of
\* the two as-of snapshots: created / deleted for an entity_uid in only one
\* of them, a field change for each of display_name and entity_type that
\* differs, a detail added / removed / changed per detail type, and nothing
\* for an entity whose snapshots are equal.
C22_DiffIsClassifiedDifference ==
    \A from \in Time, to \in Time :
        from < to =>
            /\ \A o \in get_entities_diff(entities, details, from, to) :
                  /\ o.status = "ok"
                  /\ KindsOfGroups(o.result) = Classified(from, to)
            /\ \A chs \in get_entities_diff_HEAD(entities, details, from, to) :
                  KindsOfList(chs) = Classified(from, to)

\* A change list of the snapshot comparison read in the other direction:
\* from-value and to-value swapped, created and deleted, added and removed
\* exchanged
SwappedList(changes) ==
    LET other(change_type) ==
            CASE change_type = "entity_created" -> "entity_deleted"
              [] change_type = "entity_deleted" -> "entity_created"
              [] change_type = "detail_added" -> "detail_removed"
              [] change_type = "detail_removed" -> "detail_added"
              [] OTHER -> change_type
    IN  {Change(ch.entity_uid, other(ch.change_type), ch.field,
                ch.to_value, ch.from_value) : ch \in changes}

\* A grouped diff read in the other direction
SwappedGroups(result) ==
    LET swap(ch) ==
            IF ch.type = "entity"
            THEN [ch EXCEPT !.action = IF @ = "created" THEN "deleted"
                                       ELSE "created"]
            ELSE [ch EXCEPT !.from = ch.to, !.to = ch.from]
    IN  {[g EXCEPT !.changes = {swap(ch) : ch \in g.changes}] : g \in result}

\* C23: for any two instants a and b, get_entities_diff(b, a) yields the
\* changes of get_entities_diff(a, b) with from-value and to-value swapped
\* (created and deleted, added and removed exchanging roles); stated for the
\* calls (a, b) that yield a change.
C23_DiffSymmetric ==
    \A a \in Time, b \in Time :
        /\ \A o \in get_entities_diff(entities, details, a, b) :
              (o.status = "ok" /\ o.result # {}) =>
                  \E o2 \in get_entities_diff(entities, details, b, a) :
                      o2.status = "ok" /\ o2.result = SwappedGroups(o.result)
        /\ \A chs \in get_entities_diff_HEAD(entities, details, a, b) :
              chs # {} =>
                  SwappedList(chs)
                      \in get_entities_diff_HEAD(entities, details, b, a)

\* The query parameters whose two dates parse
ParsedQueries ==
    {q \in [from_date : Params, to_date : Params] :
        /\ validate_and_parse(q.from_date).status = "ok"
        /\ validate_and_parse(q.to_date).status = "ok"}

Occurrences(h, x) == Cardinality({n \in DOMAIN h : h[n] = x})

\* The stored versions of uid: Entity rows and the EntityDetail rows attached
\* to any of them
StoredVersions(uid) == history_rows(entities, details, uid)

\* C25: get_combined_history(uid) contains every stored Entity version of uid
\* and every stored EntityDetail version attached to any Entity version of
\* uid exactly once; its length is the number of Entity versions plus the
\* number of EntityDetail versions of uid.
C25_HistoryComplete ==
    \A uid \in Uids : \A h \in get_combined_history(entities, details, uid) :
        /\ Len(h) = Cardinality({i \in DOMAIN entities :
                                   entities[i].entity_uid = uid})
                     + Cardinality({k \in DOMAIN details : UidOf(k) = uid})
        /\ \A x \in StoredVersions(uid) :
              Occurrences(h, history_entry(entities, details, x))
                  = Cardinality({y \in StoredVersions(uid) :
                        history_entry(entities, details, y)
                            = history_entry(entities, details, x)})

\* An entity with a closed and a current version and a detail on each; its
\* history has all of them
C25_Witness ==
    \E uid \in Uids, k1 \in DOMAIN details, k2 \in DOMAIN details :
        /\ UidOf(k1) = uid /\ UidOf(k2) = uid
        /\ ~entities[details[k1].entity].is_current
        /\ entities[details[k2].entity].is_current
        /\ \E h \in get_combined_history(entities, details, uid) :
              /\ Len(h) >= 4
              /\ Occurrences(h, detail_entry(entities, details[k1])) = 1
              /\ Occurrences(h, detail_entry(entities, details[k2])) = 1

SuppliedItems ==
    {Item(dt, <<"x">>) @@ [valid_from |-> Null] :
        dt \in DetailTypes \cup {<<"z">>}}
    \cup {[detail_type |-> <<"e">>, valid_from |-> Null]}

\* The payloads given to CreateService.create_entity: complete ones, and
\* ones without display_name or without entity_type
SuppliedPayloads ==
    LET complete == [display_name : {<<"a">>}, entity_type : {<<"P">>},
                     valid_from : {Null}, details : Lists(SuppliedItems)]
    IN  complete
        \cup {[entity_type |-> p.entity_type, valid_from |-> Null,
                details |-> p.details] : p \in complete}
        \cup {[display_name |-> p.display_name, valid_from |-> Null,
                details |-> p.details] : p \in complete}

\* The data given to EntityService.create
SuppliedData ==
    [display_name : Opt({<<"a">>}), entity_type : Opt({<<"P">>}),
     details : Lists({Item(dt, <<"x">>) : dt \in DetailTypes \cup {<<"z">>}})]

\* A step of the creation fails on the supplied details: an entry lacks a
\* key, names an unknown type, or two entries have the same type
DetailsFail(items) ==
    \/ \E n \in DOMAIN items :
          \/ "detail_value" \notin DOMAIN items[n]
          \/ items[n].detail_type \notin DetailTypes
    \/ \E m \in DOMAIN items, n \in DOMAIN items :
          m # n /\ items[m].detail_type = items[n].detail_type

\* Tables e2, d2 are the present ones with one open current Entity version
\* and one open current EntityDetail version per supplied entry added
AllPersisted(e2, d2, items) ==
    /\ Len(e2) = Len(entities) + 1
    /\ SubSeq(e2, 1, Len(entities)) = entities
    /\ e2[Len(e2)].is_current /\ e2[Len(e2)].valid_to = Null
    /\ Len(d2) = Len(details) + Len(items)
    /\ SubSeq(d2, 1, Len(details)) = details
    /\ \A n \in DOMAIN items :
          LET row == d2[Len(details) + n]
          IN  /\ row.entity = Len(e2)
              /\ row.detail_type = items[n].detail_type
              /\ row.detail_value = items[n].detail_value
              /\ row.is_current /\ row.valid_to = Null

\* C27: creating an entity with details is all-or-nothing: create_entity and
\* EntityService.create either persist the Entity version and every supplied
\* EntityDetail version (is_current, valid_to null), or, when a step fails
\* (missing required field, unknown detail type code, two supplied details
\* of the same type), persist no row at all.
C27_CreateAllOrNothing ==
    (Room(entities, details) /\ new_uid(entities) <= MaxUid) =>
        /\ \A payload \in SuppliedPayloads :
              \E r \in {create_entity(entities, details, payload, now)} :
                  /\ \/ r.status = "ok"
                           /\ AllPersisted(r.e, r.d, payload.details)
                     \/ r.status # "ok" /\ NothingWritten(r)
                  /\ (\/ ~entity_keys_present(payload)
                      \/ DetailsFail(payload.details)) => r.status # "ok"
        /\ \A data \in SuppliedData, user \in Users :
              \E r \in {EntityService_create(entities, details, audit, data,
                                              user, now)} :
                  /\ \/ r.status = "ok"
                           /\ AllPersisted(r.e, r.d, data.details)
                     \/ r.status # "ok" /\ NothingWritten(r) /\ r.a = audit
                  /\ (\/ data.display_name = None \/ data.entity_type = None
                      \/ DetailsFail(data.details)) => r.status # "ok"

\* An EntityService.create has just persisted an entity, and in this store
\* create_entity persists an entity with two details, while a call with two
\* details of one type fails after its Entity row and first detail were
\* written and leaves no row
C27_Witness ==
    /\ ret.op = "EntityService.create" /\ ret.status = "ok"
    /\ Room(entities, details) /\ new_uid(entities) <= MaxUid
    /\ \E payload \in SuppliedPayloads :
          /\ entity_keys_present(payload) /\ Len(payload.details) = 2
          /\ create_entity(entities, details, payload, now).status = "ok"
    /\ \E payload \in SuppliedPayloads :
          /\ entity_keys_present(payload) /\ Len(payload.details) = 2
          /\ payload.details[1].detail_type = payload.details[2].detail_type
          /\ create_entity_no_atomic(entities, details, payload, now).status # "ok"
          /\ Len(create_entity_no_atomic(entities, details, payload, now).d)
                = Len(details) + 1
          /\ NothingWritten(create_entity(entities, details, payload, now))

\* C28: an update addressed to an entity_uid that has no current version
\* writes nothing and reports not-found: update_entity_idempotent raises, the
\* legacy update_entity returns None, and get_entity returns None for it.
C28_UpdateOfUnknownUid ==
    Room(entities, details) =>
        \A c \in Calls :
            current_entity_ids(entities, c[1]) = {} =>
                /\ \A r \in Outcome(c) :
                      r.status = "not_found" /\ NothingWritten(r)
                /\ \E r \in {update_entity(entities, details, c[1], c[2], now)} :
                      r.entity = Null /\ ~r.raised /\ NothingWritten(r)
                /\ get_entity(entities, c[1]) = Null

\* An update of an entity_uid without any version has just reported
\* not-found, in a store that holds versions of another entity
C28_Witness ==
    /\ ret.op = "update" /\ ret.status = "not_found" /\ ~ret.changed
    /\ entities # <<>> /\ details # <<>>
    /\ \A i \in DOMAIN entities : entities[i].entity_uid # ret.uid
    /\ get_entity(entities, ret.uid) = Null
    /\ \E payload \in UpdatePayloads :
          /\ payload.display_name # None
          /\ update_entity(entities, details, ret.uid, payload, now).entity = Null

\* ----------------------------------------------------- claims: retention
\* The Entity versions of a logical key in table e
EntityVersions(e, uid) == {i \in DOMAIN e : e[i].entity_uid = uid}

\* The EntityDetail versions of a logical key (entity_uid, detail_type)
DetailVersionsOf(e, d, uid, dt) ==
    {k \in DOMAIN d : e[d[k].entity].entity_uid = uid /\ d[k].detail_type = dt}

\* C29: once an Entity or EntityDetail version has been closed (valid_to
\* non-null), no later create or update call deletes it or changes any of its
\* fields, and the number of versions of a logical key never decreases.
C29_ClosedVersionsImmutable ==
    [][/\ \A i \in DOMAIN entities :
             entities[i].valid_to # Null =>
                 i \in DOMAIN entities' /\ entities'[i] = entities[i]
       /\ \A k \in DOMAIN details :
             details[k].valid_to # Null =>
                 k \in DOMAIN details' /\ details'[k] = details[k]
       /\ \A uid \in Uids :
             /\ Cardinality(EntityVersions(entities', uid))
                   >= Cardinality(EntityVersions(entities, uid))
             /\ \A dt \in DetailTypes :
                   Cardinality(DetailVersionsOf(entities', details', uid, dt))
                       >= Cardinality(DetailVersionsOf(entities, details, uid, dt))
      ]_vars

\* An update has just changed an entity that already had a closed Entity
\* version and a closed EntityDetail version before it
C29_Witness ==
    /\ ret.op = "update" /\ ret.status = "ok" /\ ret.changed
    /\ \E i \in DOMAIN entities, k \in DOMAIN details :
          /\ entities[i].entity_uid = ret.uid /\ UidOf(k) = ret.uid
          /\ entities[i].valid_to # Null /\ details[k].valid_to # Null
          /\ entities[i].valid_to < entities[ret.row].valid_from
          /\ details[k].valid_to < entities[ret.row].valid_from

\* The orders in which the Entity rows in rows can come when ordered by
\* valid_from (rows of equal valid_from in either order)
RECURSIVE OrderedByValidFrom(_)
OrderedByValidFrom(rows) ==
    IF rows = {} THEN {<<>>}
    ELSE UNION {{<<i>> \o rest : rest \in OrderedByValidFrom(rows \ {i})} :
                i \in {i \in rows : \A j \in rows :
                           entities[i].valid_from <= entities[j].valid_from}}

\* C30: when the versions of one entity_uid are ordered by valid_from, each
\* version's valid_to equals the next version's valid_from (no gap and no
\* overlap) and only the last version has valid_to = null.
C30_VersionsContiguous ==
    \A uid \in Uids :
        \A vs \in OrderedByValidFrom(EntityVersions(entities, uid)) :
            \A n \in DOMAIN vs :
                IF n < Len(vs)
                THEN entities[vs[n]].valid_to = entities[vs[n + 1]].valid_from
                ELSE entities[vs[n]].valid_to = Null

\* C31: in every state the create and update services produce, an Entity or
\* EntityDetail row has is_current = true if and only if its valid_to is null.
C31_CurrentIffOpen ==
    /\ \A i \in DOMAIN entities :
        entities[i].is_current <=> entities[i].valid_to = Null
    /\ \A k \in DOMAIN details :
        details[k].is_current <=> details[k].valid_to = Null

\* An update has closed an Entity version and a detail and opened their
\* successors
C31_Witness ==
    /\ ret.op = "update" /\ ret.changed
    /\ \E i, j \in DOMAIN entities :
        /\ entities[i].entity_uid = entities[j].entity_uid
        /\ ~entities[i].is_current /\ entities[j].is_current
        /\ \E k, l \in DOMAIN details :
            /\ details[k].entity = i /\ ~details[k].is_current
            /\ details[l].entity = j /\ details[l].is_current
            /\ details[k].detail_type = details[l].detail_type

\* The digest of the normalized business fields of an Entity: display_name
\* trimmed and lower-cased, and the code of its entity type
EntityDigest(display_name, entity_type) ==
    sha256(normalize_string(display_name) \o <<"|">> \o entity_type)

\* The digest of the normalized business fields of an EntityDetail
DetailDigest(detail_value, detail_type) ==
    sha256(normalize_string(detail_value) \o <<"|">>
           \o normalize_string(detail_type))

C33_CurrentStateKeepsDetails ==
    Room(entities, details) =>
        \A c \in Calls : \A r \in Outcome(c) :
            (r.status = "ok" /\ r.changed) =>
                \A k \in SnapshotAPIView_get(entities, details, c[1]).details :
                    details[k].detail_type \notin Mentioned(c[2]) =>
                        /\ k \in SnapshotAPIView_get(r.e, r.d, c[1]).details
                        /\ k \in get_details(r.d, get_entity(r.e, c[1]))

\* C34: when a payload changes at least one detail and leaves display_name and
\* entity_type as they are, update_entity_idempotent still closes the current
\* Entity version and opens a new one: the entity has one more version.
C34_DetailChangeReversionsEntity ==
    Room(entities, details) =>
    \A c \in Calls : \A cur \in Current(c) : \A r \in Outcome(c) :
        (/\ r.status = "ok"
         /\ FieldsUnchanged(entities[cur], c[2])
         /\ c[2].details # <<>>
         /\ ~SuppliedDetailsMatch(c, NormEqual)) =>
            /\ r.changed
            /\ Cardinality(EntityVersions(r.e, c[1]))
                  = Cardinality(EntityVersions(entities, c[1])) + 1
            /\ r.e[cur] = [entities[cur] EXCEPT !.valid_to = Instant(c),
                                                !.is_current = FALSE]
            /\ r.row = Len(r.e) /\ r.row \notin DOMAIN entities
            /\ r.e[r.row].entity_uid = c[1]
            /\ r.e[r.row].valid_from = Instant(c)
            /\ r.e[r.row].is_current
            /\ r.e[r.row].display_name = entities[cur].display_name
            /\ r.e[r.row].entity_type = entities[cur].entity_type

\* An update has opened a version whose name and type are its predecessor's,
\* together with a detail of another value than the detail it closed
C34_Witness ==
    /\ ret.op = "update" /\ ret.status = "ok" /\ ret.changed
    /\ \E i \in DOMAIN entities :
        /\ entities[i].entity_uid = ret.uid
        /\ entities[i].valid_to = entities[ret.row].valid_from
        /\ entities[i].display_name = entities[ret.row].display_name
        /\ entities[i].entity_type = entities[ret.row].entity_type
        /\ \E k, l \in DOMAIN details :
            /\ details[k].entity = i /\ details[l].entity = ret.row
            /\ details[k].detail_type = details[l].detail_type
            /\ details[k].valid_to = details[l].valid_from
            /\ normalize_string(details[k].detail_value)
                  # normalize_string(details[l].detail_value)

\* Versions i and j of one entity_uid that follow each other in the order in
\* which they were written
Consecutive(e, i, j) ==
    /\ i < j
    /\ e[i].entity_uid = e[j].entity_uid
    /\ \A m \in DOMAIN e : (i < m /\ m < j) => e[m].entity_uid # e[i].entity_uid

Shown(e, d, s) ==
    [entity |-> s.entity,
     fields |-> IF s.entity = Null THEN <<>>
                ELSE <<e[s.entity].entity_uid, e[s.entity].display_name,
                       e[s.entity].entity_type, e[s.entity].valid_from>>,
     details |-> {<<k, d[k].detail_type, d[k].detail_value, d[k].valid_from>> :
                  k \in s.details}]

\* C36: an update applied at instant T changes no as-of result for an instant
\* t < T: for every entity_uid the entity version and the detail set selected
\* at t are the same before and after the update.
C36_PastUnchangedByUpdate ==
    Room(entities, details) =>
    \A c \in Calls : \A r \in Outcome(c) :
        \A t \in Time :
            t < Instant(c) =>
                /\ \A uid \in Uids :
                    {Shown(r.e, r.d, s) :
                        s \in get_entity_as_of(r.e, r.d, uid, t)}
                    = {Shown(entities, details, s) :
                        s \in get_entity_as_of(entities, details, uid, t)}
                /\ {Shown(r.e, r.d, s) :
                        s \in AsOfService_get_entities_as_of(r.e, r.d, t)}
                    = {Shown(entities, details, s) :
                        s \in AsOfService_get_entities_as_of(entities, details, t)}

\* An update at T has closed a version and a detail that were valid at an
\* earlier instant
C36_Witness ==
    /\ ret.op = "update" /\ ret.status = "ok" /\ ret.changed
    /\ \E i \in DOMAIN entities, k \in DOMAIN details, t \in Time :
        /\ t < entities[ret.row].valid_from
        /\ entities[i].entity_uid = ret.uid
        /\ entities[i].valid_to = entities[ret.row].valid_from
        /\ valid_at(entities[i], t)
        /\ details[k].entity = i
        /\ details[k].valid_to = entities[ret.row].valid_from
        /\ valid_at(details[k], t)

\* The calls SCD2Service.update_entity can be given in a state, each with the
\* reading of the clock when it creates the new record
SCD2Calls ==
    {c \in ModelClasses \X (Uids \cup 1..MaxEntityRows)
            \X (SCD2UpdateData("Entity") \cup SCD2UpdateData("EntityDetail"))
            \X Time :
        /\ c[2] \in SCD2Keys(c[1])
        /\ c[3] \in SCD2UpdateData(c[1])
        /\ c[4] >= now}

\* The outcome of one such call in the present state (a set of one record)
SCD2Outcome(c) ==
    {SCD2Service_update_entity(entities, details, c[1], c[2], c[3], now, c[4])}

\* The table of a model class in the outcome of a call
TableOf(r, model_class) == IF model_class = "Entity" THEN r.e ELSE r.d

\* C37: SCD2Service.update_entity closes the current record and opens the new
\* record at one and the same instant: the closed record's valid_to equals
\* the new record's valid_from, also when the clock advances during the call.
C37_OneTransitionInstant ==
    Room(entities, details) =>
    \A c \in SCD2Calls : \A r \in SCD2Outcome(c) :
        r.status = "ok" =>
            TableOf(r, c[1])[r.cur].valid_to = TableOf(r, c[1])[r.row].valid_from

\* The value a call's update_data gives a field, else the replaced record's
Merged(update_data, key, old_value) ==
    IF key \in DOMAIN update_data THEN update_data[key] ELSE old_value

\* C38: the new record created by SCD2Service.update_entity has, for every
\* business field absent from update_data (reference fields such as
\* entity_type and detail_type included), the value of the record it
\* replaces, and for every field present in update_data the supplied value.
C38_UnspecifiedFieldsCarriedOver ==
    Room(entities, details) =>
    \A c \in SCD2Calls : \A r \in SCD2Outcome(c) :
        (/\ r.cur # Null
         /\ TableOf([e |-> entities, d |-> details], c[1])[r.cur].valid_from <= now) =>
            /\ r.status = "ok"
            /\ IF c[1] = "Entity"
               THEN LET old == entities[r.cur]
                        new == r.e[r.row]
                    IN  /\ new.entity_uid = old.entity_uid
                        /\ new.display_name
                              = Merged(c[3], "display_name", old.display_name)
                        /\ new.entity_type
                              = Merged(c[3], "entity_type", old.entity_type)
               ELSE LET old == details[r.cur]
                        new == r.d[r.row]
                    IN  /\ new.entity = old.entity
                        /\ new.detail_value
                              = Merged(c[3], "detail_value", old.detail_value)
                        /\ new.detail_type
                              = Merged(c[3], "detail_type_id", old.detail_type)

\* The entity fields of the input differ from those of version cur
EntityFieldsChanged(e, cur, data) ==
    /\ parse_input_data(data)
    /\ \/ data.display_name[1] # e[cur].display_name
       \/ data.entity_type[1] # e[cur].entity_type

Mentions(new_data, field) ==
    \/ field \in DOMAIN new_data
    \/ field = "entity_type_id" /\ "entity_type" \in DOMAIN new_data

\* C40: AuditService.compare_entity_data(old, new_data) returns before/after
\* maps containing exactly the tracked business fields whose value in
\* new_data differs from the old entity's value; a tracked field that new_data
\* does not mention is not reported as changed, and when nothing differs the
\* result is empty.
C40_CompareReportsChangedFields ==
    \A i \in DOMAIN entities, new_data \in CompareData :
        LET r == compare_entity_data(entities[i], new_data)
            changed == {field \in tracked_fields :
                /\ Mentions(new_data, field)
                /\ entity_new_value(new_data, field) # entity_old_value(entities[i], field)}
        IN  IF changed = {} THEN DOMAIN r = {}
            ELSE /\ DOMAIN r = {"before", "after"}
                 /\ DOMAIN r.before = changed
                 /\ DOMAIN r.after = changed
                 /\ \A field \in changed :
                     /\ r.before[field] = entity_old_value(entities[i], field)
                     /\ r.after[field] = entity_new_value(new_data, field)

====
